---- MODULE Spec2Model ----
(***************************************************************************)
(* Phase-shift evaluation of the suspension tester.                        *)
(*                                                                         *)
(* OptimizedPhaseCalculator.calculate (processing/phase_calculator.py, in  *)
(* src/processing/data_processor.py) dispatches to the C extension         *)
(* phase_shift_c.c (in src/processing/ring_buffer.py) when it can be       *)
(* imported and to the Python fallback otherwise.  Both are modelled step  *)
(* by step for the wheels of one axle.  Real numbers are exact rationals;  *)
(* times are integer ticks.                                                *)
(***************************************************************************)
EXTENDS Integers, Sequences, FiniteSets, TLC

(* ----------------------------- bounds --------------------------------- *)
\* largest number of platform cycles in a record evaluated alone
MaxCycles == 2
\* largest number of samples missing at the end of one array of a record
MaxDrop == 1
\* largest number of platform cycles in a record of the axle scenario
AxleMaxCycles == 1

(* ------------------------ program constants --------------------------- *)
min_freq == 6
max_freq == 18
min_distance == 50
window == 5
MaxCrossings == 100
rfst_fmin == 25
rfst_fmax == 25

Wheels == {"left", "right"}

(* ------------------------ exact rationals ----------------------------- *)
Abs(x) == IF x < 0 THEN -x ELSE x

RECURSIVE GCD(_, _)
GCD(a, b) == IF b = 0 THEN a ELSE GCD(b, a % b)

\* the rational n/d in lowest terms with a positive denominator (d # 0)
Rat(n, d) ==
    LET g == GCD(Abs(n), Abs(d))
        s == IF d < 0 THEN -1 ELSE 1
    IN  [n |-> (s * n) \div g, d |-> (s * d) \div g]

RInt(k) == [n |-> k, d |-> 1]
RAdd(x, y) == Rat(x.n * y.d + y.n * x.d, x.d * y.d)
RSub(x, y) == Rat(x.n * y.d - y.n * x.d, x.d * y.d)
RMul(x, y) == Rat(x.n * y.n, x.d * y.d)
RDiv(x, y) == Rat(x.n * y.d, x.d * y.n)
RLe(x, y) == x.n * y.d <= y.n * x.d
RLt(x, y) == x.n * y.d < y.n * x.d
RFloor(x) == x.n \div x.d
RTrunc(x) == IF x.n >= 0 THEN x.n \div x.d ELSE -((-x.n) \div x.d)

\* Python's x % m on floats: the result has the sign of m
PyMod(x, m) == RSub(x, RMul(RInt(RFloor(RDiv(x, m))), m))
\* C's fmod(x, m): the result has the sign of x
fmod(x, m) == RSub(x, RMul(RInt(RTrunc(RDiv(x, m))), m))

\* absent value of a result field
NoValue == [n |-> 0, d |-> 0]
\* the value -1.0 both cycle-phase functions return for an unusable cycle
InvalidPhase == RInt(-1)

\* element i of an array, indices from 0 as in the source
At(s, i) == s[i + 1]
\* the slice s[a:b] of numpy and of the C index range [a, b)
Slice(s, a, b) == SubSeq(s, a + 1, b)
Min2(a, b) == IF a < b THEN a ELSE b
Max2(a, b) == IF a > b THEN a ELSE b

(* ------------------- measurement records (inputs) --------------------- *)
\* samples from one platform peak to the next: the smallest distance the
\* peak search accepts
CycleLen == min_distance
\* samples before the first peak and after the last one
LeadLen == window
TailLen == window + 1
\* ticks per second: at 2 ticks per sample a cycle lasts 1/max_freq s
TicksPerSecond == max_freq * (CycleLen - 1) * 2
\* the lead-in and the run-out are sampled every 4 ticks
LeadDt == 2 + 2
\* platform position at the first peak
PeakHeight == 2 * 100

StaticWeights == {650}

\* tire force at offset o of a cycle, for a shape given as offsets from the
\* static weight; a and b are the offsets of the samples after a level change
ForceAt(fp, o, sw) ==
    CASE fp.shape = "none"   -> sw + 10
      [] fp.shape = "one"    -> IF o < fp.a THEN sw + 10 ELSE sw - 10
      [] fp.shape = "downup" -> IF o < fp.a \/ o >= fp.b THEN sw + 30 ELSE sw - 10
      [] fp.shape = "updown" -> IF o < fp.a \/ o >= fp.b THEN sw - 10 ELSE sw + 10
      [] fp.shape = "deep"   -> IF o < fp.a \/ o >= fp.b THEN sw + 70 ELSE sw - 10
      [] fp.shape = "touch"  -> IF o < fp.a THEN sw - 10
                                ELSE IF o = fp.a THEN sw
                                ELSE IF o < fp.b THEN sw + 10 ELSE sw - 10

\* one platform cycle of a record: ticks per sample, force shape, how much
\* higher the next peak is, whether a second crest follows the peak closer
\* than min_distance, how many samples after the peak a higher crest follows
\* inside the peak's window (0: none)
CycleKinds ==
    { [dt |-> 4, fp |-> [shape |-> "downup", a |-> 5,  b |-> 15], rise |-> 0, bump |-> FALSE, crest |-> 0],
      [dt |-> 4, fp |-> [shape |-> "downup", a |-> 3,  b |-> 8],  rise |-> 1, bump |-> FALSE, crest |-> 0],
      [dt |-> 2, fp |-> [shape |-> "updown", a |-> 10, b |-> 20], rise |-> 0, bump |-> FALSE, crest |-> 0],
      [dt |-> 6, fp |-> [shape |-> "downup", a |-> 30, b |-> 45], rise |-> 0, bump |-> FALSE, crest |-> 0],
      [dt |-> 1, fp |-> [shape |-> "downup", a |-> 5,  b |-> 15], rise |-> 0, bump |-> FALSE, crest |-> 0],
      [dt |-> 7, fp |-> [shape |-> "downup", a |-> 5,  b |-> 15], rise |-> 0, bump |-> FALSE, crest |-> 0],
      [dt |-> 4, fp |-> [shape |-> "none",   a |-> 0,  b |-> 0],  rise |-> 0, bump |-> FALSE, crest |-> 0],
      [dt |-> 4, fp |-> [shape |-> "one",    a |-> 20, b |-> 0],  rise |-> 0, bump |-> FALSE, crest |-> 0],
      [dt |-> 4, fp |-> [shape |-> "touch",  a |-> 10, b |-> 30], rise |-> 0, bump |-> TRUE, crest |-> 0],
      [dt |-> 4, fp |-> [shape |-> "deep",   a |-> 5,  b |-> 15], rise |-> 0, bump |-> FALSE, crest |-> 0],
      [dt |-> 4, fp |-> [shape |-> "one",    a |-> 20, b |-> 0],  rise |-> 0, bump |-> FALSE, crest |-> 2] }

\* the kinds used when both wheels of an axle are evaluated together
AxleCycleKinds ==
    { k \in CycleKinds : k.dt \in {1, 4} /\ k.fp.shape \in {"downup", "none"} }

BumpOffset == 2 * window

\* platform position over one cycle that starts at a peak of height h
PlatformCycle(k, h) ==
    [j \in 1..CycleLen |->
        LET o == j - 1
        IN  IF k.bump /\ o = BumpOffset THEN h + 1
            ELSE IF k.crest > 0 /\ o = k.crest THEN h + 1
            ELSE IF o <= CycleLen \div 2 THEN h - 2 * o
            ELSE (h + k.rise) - 2 * (CycleLen - o)]

ForceCycle(k, sw) == [j \in 1..CycleLen |-> ForceAt(k.fp, j - 1, sw)]

RECURSIVE PlatformCycles(_, _)
PlatformCycles(kinds, h) ==
    IF kinds = << >> THEN << >>
    ELSE PlatformCycle(Head(kinds), h) \o PlatformCycles(Tail(kinds), h + Head(kinds).rise)

RECURSIVE ForceCycles(_, _)
ForceCycles(kinds, sw) ==
    IF kinds = << >> THEN << >>
    ELSE ForceCycle(Head(kinds), sw) \o ForceCycles(Tail(kinds), sw)

\* sample times of the cycles, the first of which starts at time t
RECURSIVE TimeCycles(_, _)
TimeCycles(kinds, t) ==
    IF kinds = << >> THEN << >>
    ELSE [j \in 1..CycleLen |-> t + Head(kinds).dt * (j - 1)]
         \o TimeCycles(Tail(kinds), t + Head(kinds).dt * CycleLen)

RECURSIVE SumDt(_)
SumDt(kinds) == IF kinds = << >> THEN 0 ELSE Head(kinds).dt + SumDt(Tail(kinds))

RECURSIVE SumRise(_)
SumRise(kinds) == IF kinds = << >> THEN 0 ELSE Head(kinds).rise + SumRise(Tail(kinds))

\* the record of a test run: npeaks platform peaks, hence Len(kinds) cycles
PlatformOf(npeaks, kinds) ==
    IF npeaks = 0 THEN [j \in 1..(LeadLen + 1 + TailLen) |-> j]
    ELSE [j \in 1..LeadLen |-> PeakHeight - 2 * (LeadLen - j + 1)]
         \o PlatformCycles(kinds, PeakHeight)
         \o [j \in 1..(TailLen + 1) |-> PeakHeight + SumRise(kinds) - 2 * (j - 1)]

ForceOf(kinds, sw) ==
    [j \in 1..LeadLen |-> sw + 10] \o ForceCycles(kinds, sw)
    \o [j \in 1..(TailLen + 1) |-> sw + 10]

TimeOf(kinds) ==
    [j \in 1..LeadLen |-> LeadDt * (j - 1)]
    \o TimeCycles(kinds, LeadDt * LeadLen)
    \o [j \in 1..(TailLen + 1) |->
          LeadDt * LeadLen + SumDt(kinds) * CycleLen + LeadDt * (j - 1)]

DropLast(s, k) == SubSeq(s, 1, Len(s) - k)

\* drop names the array that is short ("none": all have the same length)
MakeRecord(npeaks, kinds, sw, short, k) ==
    [platform_position |-> IF short = "platform" THEN DropLast(PlatformOf(npeaks, kinds), k)
                           ELSE PlatformOf(npeaks, kinds),
     tire_force        |-> IF short = "force" THEN DropLast(ForceOf(kinds, sw), k)
                           ELSE ForceOf(kinds, sw),
     time              |-> IF short = "time" THEN DropLast(TimeOf(kinds), k)
                           ELSE TimeOf(kinds),
     static_weight     |-> sw]

KindSeqs(K, maxc) == UNION { [1..n -> K] : n \in 0..maxc }

Records(K, maxc, maxdrop) ==
    { MakeRecord(0, << >>, sw, "none", 0) : sw \in StaticWeights }
    \cup { MakeRecord(Len(ks) + 1, ks, sw, "none", 0) :
             ks \in KindSeqs(K, maxc), sw \in StaticWeights }
    \cup { MakeRecord(Len(ks) + 1, ks, sw, sh, k) :
             ks \in KindSeqs(K, maxc), sw \in StaticWeights,
             sh \in {"platform", "force", "time"}, k \in 1..maxdrop }

NoRecord ==
    [platform_position |-> << >>, tire_force |-> << >>, time |-> << >>,
     static_weight |-> 0]

(* --------------------- phase_shift_c.c (C extension) ------------------ *)
\* the elements of a set of integers in increasing order
Ordered(S) ==
    [k \in 1..Cardinality(S) |-> CHOOSE x \in S : Cardinality({y \in S : y < x}) = k - 1]

\* find_peaks: the samples that pass the tests which do not depend on the
\* peaks accepted before (local maximum, largest sample of its window)
c_peak_candidates(data) ==
    LET n == Len(data)
    IN  { i \in 1..(n - 2) :
            /\ At(data, i) > At(data, i - 1) /\ At(data, i) > At(data, i + 1)
            /\ LET start == IF i - window > 0 THEN i - window ELSE 0
                   end   == IF i + window < n THEN i + window ELSE n
               IN  \A j \in start..(end - 1) : j # i => At(data, j) < At(data, i) }

\* the loop of find_peaks without the minimum distance to the last peak
RECURSIVE find_peaks_from_any_distance(_, _, _, _, _)
find_peaks_from_any_distance(cands, k, peaks, max_peaks, md) ==
    IF ~(k <= Len(cands) /\ Len(peaks) < max_peaks) THEN peaks
    ELSE find_peaks_from_any_distance(cands, k + 1, Append(peaks, cands[k]),
                                      max_peaks, md)

\* find_peaks: the loop over the samples in increasing order; a sample that
\* is no candidate leaves the accepted peaks as they are
RECURSIVE find_peaks_from(_, _, _, _, _)
find_peaks_from(cands, k, peaks, max_peaks, md) ==
    IF ~(k <= Len(cands) /\ Len(peaks) < max_peaks) THEN peaks
    ELSE LET i   == cands[k]
             far == peaks = << >> \/ i - peaks[Len(peaks)] >= md
         IN  find_peaks_from(cands, k + 1,
                             IF far THEN Append(peaks, i) ELSE peaks, max_peaks, md)

find_peaks(data, max_peaks, md) ==
    find_peaks_from(Ordered(c_peak_candidates(data)), 1, << >>, max_peaks, md)

\* one static-weight crossing between samples i-1 and i: the interpolated
\* time and the branch that found it
Crossing(f0, f1, t0, t1, sw, dir) ==
    LET frac == Rat(sw - f0, f1 - f0)
    IN  [t |-> RAdd(RInt(t0), RMul(frac, RInt(t1 - t0))), dir |-> dir]

\* the crossing the loop body of calculate_cycle_phase finds at sample i
c_crossing_at(force, time, i, sw) ==
    LET f0 == At(force, i - 1)
        f1 == At(force, i)
    IN  IF f0 <= sw /\ sw <= f1
          THEN <<Crossing(f0, f1, At(time, i - 1), At(time, i), sw, "up")>>
        ELSE IF f0 >= sw /\ sw >= f1
          THEN <<Crossing(f0, f1, At(time, i - 1), At(time, i), sw, "down")>>
        ELSE << >>

\* the crossings array of calculate_cycle_phase after its loop
c_crossings(force, time, start, end, sw) ==
    LET at == Ordered({ i \in (start + 1)..(end - 1) :
                          c_crossing_at(force, time, i, sw) # << >> })
    IN  [k \in 1..Min2(Len(at), MaxCrossings) |->
            c_crossing_at(force, time, at[k], sw)[1]]

\* normalisation of a phase angle in calculate_cycle_phase
c_normalize(phase_shift) ==
    LET m == fmod(phase_shift, RInt(360))
        p == IF RLt(m, RInt(0)) THEN RAdd(m, RInt(360)) ELSE m
    IN  IF RLt(RInt(180), p) THEN RSub(RInt(360), p) ELSE p

\* calculate_cycle_phase: the returned phase with the values it is made of
calculate_cycle_phase(force, time, start, end, sw) ==
    LET n == end - start
        crossings == IF n < 3 THEN << >>
                     ELSE c_crossings(force, time, start, end, sw)
    IN  IF n < 3 \/ Len(crossings) < 2
          THEN [phase |-> InvalidPhase, crossings |-> crossings,
                fref |-> NoValue, top |-> NoValue]
        ELSE LET fref == RDiv(RAdd(crossings[1].t, crossings[2].t), RInt(2))
                 cycle_duration == RInt(At(time, end - 1) - At(time, start))
                 phase_shift == RMul(RDiv(RSub(fref, RInt(At(time, start))), cycle_duration),
                                     RInt(360))
             IN  [phase |-> c_normalize(phase_shift), crossings |-> crossings,
                  fref |-> fref, top |-> RInt(At(time, start))]

\* the frequency filter with the lower bound excluded
c_in_band_exclusive(frequency) ==
    ~(RLe(frequency, RInt(min_freq)) \/ RLt(RInt(max_freq), frequency))

\* the frequency filter of calculate_phase_shift: TRUE when the cycle is kept
c_in_band(frequency) ==
    ~(RLt(frequency, RInt(min_freq)) \/ RLt(RInt(max_freq), frequency))

\* the minimum search of calculate_phase_shift over the valid cycles
RECURSIVE c_min_from(_, _, _, _)
c_min_from(phases, freqs, i, best) ==
    IF i > Len(phases) THEN best
    ELSE c_min_from(phases, freqs, i + 1,
                    IF RLt(phases[i], best.min_phase)
                      THEN [min_phase |-> phases[i], min_freq |-> freqs[i], min_idx |-> i]
                    ELSE best)

c_min(phases, freqs) ==
    c_min_from(phases, freqs, 2,
               [min_phase |-> phases[1], min_freq |-> freqs[1], min_idx |-> 1])

(* ----------- processing/phase_calculator.py (Python fallback) --------- *)
None == [n |-> 0, d |-> -1]

\* a numpy slice s[a:b], clipped to the array
NpSlice(s, a, b) == SubSeq(s, Min2(a, Len(s)) + 1, Min2(b, Len(s)))

\* _find_peaks_fast: the samples that pass the tests which do not depend on
\* the peaks accepted before
py_peak_candidates(data) ==
    LET n == Len(data)
    IN  { i \in 1..(n - 2) :
            /\ At(data, i) > At(data, i - 1) /\ At(data, i) > At(data, i + 1)
            /\ i >= 5 /\ i < n - 5
            /\ \A j \in Max2(0, i - 5)..(Min2(n, i + 6) - 1) :
                   j # i => At(data, j) < At(data, i) }

RECURSIVE py_find_peaks_from(_, _, _, _)
py_find_peaks_from(cands, k, peaks, md) ==
    IF k > Len(cands) THEN peaks
    ELSE LET i   == cands[k]
             far == peaks = << >> \/ i - peaks[Len(peaks)] >= md
         IN  py_find_peaks_from(cands, k + 1,
                                IF far THEN Append(peaks, i) ELSE peaks, md)

_find_peaks_fast(data, md) ==
    py_find_peaks_from(Ordered(py_peak_candidates(data)), 1, << >>, md)

\* the crossing the loop body of _calculate_phase_fast finds at sample i
py_crossing_at(force_data, time_data, i, sw) ==
    LET f0 == At(force_data, i - 1)
        f1 == At(force_data, i)
    IN  IF f0 <= sw /\ sw <= f1
          THEN <<Crossing(f0, f1, At(time_data, i - 1), At(time_data, i), sw, "up")>>
        ELSE IF f0 >= sw /\ sw >= f1
          THEN <<Crossing(f0, f1, At(time_data, i - 1), At(time_data, i), sw, "down")>>
        ELSE << >>

\* the crossings list of _calculate_phase_fast after its loop
py_crossings(force_data, time_data, sw) ==
    LET at == Ordered({ i \in 1..(Len(force_data) - 1) :
                          py_crossing_at(force_data, time_data, i, sw) # << >> })
    IN  [k \in 1..Len(at) |-> py_crossing_at(force_data, time_data, at[k], sw)[1]]

py_normalize(phase_shift) ==
    LET p == PyMod(phase_shift, RInt(360))
    IN  IF RLt(RInt(180), p) THEN RSub(RInt(360), p) ELSE p

_calculate_phase_fast(force_data, time_data, sw) ==
    LET crossings == py_crossings(force_data, time_data, sw)
    IN  IF Len(crossings) < 2
          THEN [phase |-> InvalidPhase, crossings |-> crossings,
                fref |-> NoValue, top |-> NoValue]
        ELSE LET fref == RDiv(RAdd(crossings[1].t, crossings[2].t), RInt(2))
                 t0 == At(time_data, 0)
                 cycle_duration == RInt(time_data[Len(time_data)] - t0)
                 phase_shift == RMul(RDiv(RSub(fref, RInt(t0)), cycle_duration), RInt(360))
             IN  [phase |-> py_normalize(phase_shift), crossings |-> crossings,
                  fref |-> fref, top |-> RInt(t0)]

\* the frequency filter of _analyze_cycles_vectorized: TRUE when kept
py_in_band(frequency) ==
    RLe(RInt(min_freq), frequency) /\ RLe(frequency, RInt(max_freq))

\* the test "phase is not None" of _analyze_cycles_vectorized
py_phase_usable(phase) == phase # None

\* the test "len(platform_peaks) < 2" of _calculate_optimized_python
py_too_few_peaks(platform_peaks) == Len(platform_peaks) < 2

\* the peak test with the bound one too small
c_too_few_peaks_below_one(peak_count) == peak_count < 1

\* the test "peak_count < 2" of calculate_phase_shift
c_too_few_peaks(peak_count) == peak_count < 2

\* the array check of calculate_phase_shift: TRUE when the lengths agree
c_same_length(r) ==
    LET n == Len(r.platform_position)
    IN  ~(Len(r.tire_force) # n \/ Len(r.time) # n)

\* np.argmin: the index of the first smallest element
np_argmin(xs) ==
    CHOOSE i \in 1..Len(xs) :
        /\ \A j \in 1..Len(xs) : RLe(xs[i], xs[j])
        /\ \A j \in 1..(i - 1) : RLt(xs[i], xs[j])

(* ------------------------------ state --------------------------------- *)
VARIABLES
    c_extension,    \* OptimizedPhaseCalculator._c_extension is not None
    numpy_empty_is_error, \* the installed NumPy raises on the truth value of an empty array
    _cache,         \* OptimizedPhaseCalculator._cache
    record,         \* per wheel: the measurement record handed to calculate
    pc,             \* per wheel: position of the evaluation
    peaks,          \* per wheel: accepted platform peaks (sample indices)
    ci,             \* per wheel: loop variable i of the cycle loop
    phase_shifts,   \* per wheel: phases of the cycles kept so far
    frequencies,    \* per wheel: their frequencies
    analysed,       \* per wheel: what the cycle loop computed for each cycle
    result,         \* per wheel: the dictionary calculate returned
    raised,         \* per wheel: the exception calculate raised, or "none"
    result_queue,   \* DataProcessor.result_queue
    axle,           \* the axle result, once calculate_imbalances has run
    seq,            \* the test sequencer of the run
    aux,            \* per wheel: overflow flags and H25 of the force analysis
    wheel_result,   \* per wheel: the assembled EGEATestResult
    motor_left,     \* eus_waage.c: MOTOR_CONTROL motor_left
    motor_right,    \* eus_waage.c: MOTOR_CONTROL motor_right
    MOTOR_LEFT,     \* output pin of the left motor
    MOTOR_RIGHT,    \* output pin of the right motor
    t_10ms,         \* incremented by the Timer0 interrupt
    tcnt_10,        \* round robin counter 0..9 of the Timer0 interrupt
    tcnt_100,       \* round robin counter 0..99 of the Timer0 interrupt
    t1_sync,        \* set by the Timer2 interrupt, cleared by the main loop
    t10_sync,       \* set by the Timer0 interrupt, cleared by the main loop
    gewichte,       \* the eight scaled DMS values
    TOP_SENSOR,     \* input pin of the top-position sensor
    top_position_flag,
    last_top_state,
    can_tx,         \* the messages the latest run of Every10ms put on the bus
    observed,       \* history: what an observer of bus, pins and sensor counted
    update_pc,      \* main: its position inside UpdateMotorTimers
    scales,         \* eus_waage.c: the scale table, its EEPROM copy and their flags
    processor,      \* the DataProcessor thread, its queues and the thread that stops it
    ring,           \* a RingBuffer and the threads that use it
    updater,        \* a BatchedUpdater, its timer thread and its callers
    interpolation   \* one crossing search over the force samples of a cycle

\* the state of the cabinet firmware
firmware == <<motor_left, motor_right, MOTOR_LEFT, MOTOR_RIGHT, t_10ms, tcnt_10,
              tcnt_100, t1_sync, t10_sync, gewichte, TOP_SENSOR,
              top_position_flag, last_top_state, can_tx, observed>>

\* the state outside the evaluation engine and the 10 ms cycle of the cabinet
apart == <<update_pc, scales, processor, ring, updater, interpolation>>

vars == <<apart, firmware, c_extension, numpy_empty_is_error, _cache, record, pc, peaks, ci, phase_shifts, frequencies,
          analysed, result, raised, result_queue, axle, seq, aux, wheel_result>>

NoResult ==
    [valid |-> FALSE, error |-> "", min_phase_shift |-> NoValue,
     min_phase_freq |-> NoValue, phase_shifts |-> << >>, frequencies |-> << >>]

Invalid(msg) == [NoResult EXCEPT !.error = msg]

\* a wheel result that has not been assembled
NoWheelResult ==
    [assembled |-> FALSE, phase_shift_result |-> NoResult,
     min_phase_shift |-> NoValue, integer_min_phase |-> 0,
     force_analysis |-> [rfa_max |-> NoValue, fa_max |-> 0,
                         under_flag |-> FALSE, over_flag |-> FALSE],
     rigidity_result |-> [rigidity |-> NoValue, h25 |-> NoValue,
                          platform_amplitude |-> 0, pressure_ok |-> FALSE,
                          underinflation |-> FALSE, overinflation |-> FALSE],
     absolute_criterion_pass |-> FALSE, overall_pass |-> FALSE, reason |-> ""]

NoAxle ==
    [computed |-> FALSE, left_wheel |-> NoResult, right_wheel |-> NoResult,
     left |-> NoWheelResult, right |-> NoWheelResult,
     d_phi_min |-> NoValue, d_phi_min_computable |-> FALSE,
     d_rfa_max |-> NoValue, d_rigidity |-> NoValue,
     overall_pass |-> FALSE, reason |-> ""]

\* the sequencer before a test run
NoSequencer ==
    [state |-> "IDLE", path |-> <<"IDLE">>, reason |-> "", abort |-> "",
     abort_seen_in |-> "", weight |-> 0, sweep_freq |-> 0, sweep_time |-> 0,
     invoked |-> 0, running_at_request |-> FALSE]

\* force-analysis inputs of a wheel without overflow and with a tire of
\* 200 N/mm: H25 = (200 - b_rig) * platform_amplitude / a_rig
PlainAux ==
    [under_flag |-> FALSE, over_flag |-> FALSE, h25 |-> Rat(154 * 3000, 571)]

\* the wheels whose record is evaluated
Present(w) == pc[w] # "absent"

\* MOTOR_CONTROL of a motor that stands
MotorOff == [running |-> 0, remaining_time |-> 0]

\* what the observer has counted before the first step
NothingObserved ==
    [started |-> [m \in {"left", "right"} |-> FALSE],
     runtime |-> [m \in {"left", "right"} |-> 0],
     elapsed |-> [m \in {"left", "right"} |-> 0],
     cycles |-> 0, since_status |-> 0, status_sends |-> 0, last_gap |-> 0,
     sample |-> [i \in 1..8 |-> 0],
     changes |-> 0, edges |-> 0, top_packets |-> 0]

\* nothing runs outside the evaluation engine
NothingElse ==
    /\ update_pc = "idle"
    /\ scales = "idle"
    /\ processor = "idle"
    /\ ring = "idle"
    /\ updater = "idle"
    /\ interpolation = "idle"

\* the globals of the firmware after their initialisers, InitVars and InitIO
InitVars ==
    /\ motor_left = MotorOff
    /\ motor_right = MotorOff
    /\ MOTOR_LEFT = 0
    /\ MOTOR_RIGHT = 0
    /\ t_10ms = 0
    /\ tcnt_10 = 0
    /\ tcnt_100 = 0
    /\ t1_sync = 0
    /\ t10_sync = 0
    /\ gewichte = [i \in 1..8 |-> 0]
    /\ TOP_SENSOR = 0
    /\ top_position_flag = 0
    /\ last_top_state = 0
    /\ can_tx = << >>
    /\ observed = NothingObserved

InitWith(recs) ==
    /\ InitVars
    /\ NothingElse
    /\ c_extension \in BOOLEAN
    /\ numpy_empty_is_error \in BOOLEAN
    /\ _cache = << >>
    /\ record \in recs
    /\ pc = [w \in Wheels |-> IF record[w] = NoRecord THEN "absent" ELSE "queued"]
    /\ peaks = [w \in Wheels |-> << >>]
    /\ ci = [w \in Wheels |-> 0]
    /\ phase_shifts = [w \in Wheels |-> << >>]
    /\ frequencies = [w \in Wheels |-> << >>]
    /\ analysed = [w \in Wheels |-> << >>]
    /\ result = [w \in Wheels |-> NoResult]
    /\ raised = [w \in Wheels |-> "none"]
    /\ result_queue = << >>
    /\ axle = NoAxle
    /\ wheel_result = [w \in Wheels |-> NoWheelResult]

\* one wheel is evaluated alone, handed to the DataProcessor directly
Init ==
    /\ InitWith({ [w \in Wheels |-> IF w = "left" THEN r ELSE NoRecord] :
                    r \in Records(CycleKinds, MaxCycles, MaxDrop) })
    /\ seq = NoSequencer
    /\ aux = [w \in Wheels |-> PlainAux]

\* both wheels of an axle are evaluated
InitAxle ==
    /\ InitWith([Wheels -> Records(AxleCycleKinds, AxleMaxCycles, 0)])
    /\ seq = NoSequencer
    /\ aux = [w \in Wheels |-> PlainAux]

(* ---------------- one evaluation from call to return ------------------ *)
\* calculate_phase_shift of the C extension on one record, run alone: the
\* exception it raises ("none": it returns) and the dictionary it returns
calculate_phase_shift(rec) ==
    LET n == Len(rec.platform_position)
        pk == find_peaks(rec.platform_position, n \div 10, min_distance)
        frequency(i) == Rat(TicksPerSecond, At(rec.time, pk[i + 1] - 1) - At(rec.time, pk[i]))
        phase(i) == calculate_cycle_phase(rec.tire_force, rec.time, pk[i], pk[i + 1],
                                          rec.static_weight).phase
        valid == Ordered({ i \in 1..(Len(pk) - 1) :
                             c_in_band(frequency(i)) /\ RLe(RInt(0), phase(i)) })
        ps == [k \in 1..Len(valid) |-> phase(valid[k])]
        fs == [k \in 1..Len(valid) |-> frequency(valid[k])]
    IN  IF ~c_same_length(rec)
          THEN [raised |-> "ValueError: Arrays must have same length", result |-> NoResult]
        ELSE IF c_too_few_peaks(Len(pk))
          THEN [raised |-> "none", result |-> Invalid("Not enough peaks found")]
        ELSE IF Len(ps) = 0
          THEN [raised |-> "none", result |-> Invalid("No valid cycles found")]
        ELSE [raised |-> "none",
              result |-> [valid |-> TRUE, error |-> "",
                          min_phase_shift |-> c_min(ps, fs).min_phase,
                          min_phase_freq |-> c_min(ps, fs).min_freq,
                          phase_shifts |-> ps, frequencies |-> fs]]

\* _calculate_optimized_python on one record, run alone, with a NumPy that
\* raises on the truth value of an empty array (strict) or does not
_calculate_optimized_python(rec, strict) ==
    LET pk == _find_peaks_fast(rec.platform_position, min_distance)
        cycle_time(i) == NpSlice(rec.time, pk[i], pk[i + 1])
        cycle_force(i) == NpSlice(rec.tire_force, pk[i], pk[i + 1])
        frequency(i) == Rat(TicksPerSecond,
                            cycle_time(i)[Len(cycle_time(i))] - cycle_time(i)[1])
        phase(i) == _calculate_phase_fast(cycle_force(i), cycle_time(i),
                                          rec.static_weight).phase
        valid == Ordered({ i \in 1..(Len(pk) - 1) :
                             py_in_band(frequency(i)) /\ py_phase_usable(phase(i)) })
        ps == [k \in 1..Len(valid) |-> phase(valid[k])]
        fs == [k \in 1..Len(valid) |-> frequency(valid[k])]
    IN  IF py_too_few_peaks(pk)
          THEN [raised |-> "none", result |-> Invalid("Nicht genug Peaks gefunden")]
        ELSE IF \E i \in 1..(Len(pk) - 1) : cycle_time(i) = << >>
          THEN [raised |-> "IndexError", result |-> NoResult]
        ELSE IF Len(ps) = 0
          THEN IF strict
                 THEN [raised |-> "ValueError: truth value of an empty array",
                       result |-> NoResult]
                 ELSE [raised |-> "none", result |-> Invalid("Keine gueltigen Zyklen")]
        ELSE IF Len(ps) > 1
          THEN [raised |-> "ValueError: truth value of an array is ambiguous",
                result |-> NoResult]
        ELSE IF ps[1] = RInt(0)
          THEN [raised |-> "none", result |-> Invalid("Keine gueltigen Zyklen")]
        ELSE [raised |-> "none",
              result |-> [valid |-> TRUE, error |-> "",
                          min_phase_shift |-> ps[np_argmin(ps)],
                          min_phase_freq |-> fs[np_argmin(ps)],
                          phase_shifts |-> ps, frequencies |-> fs]]

\* calculate on one record, run alone
calculate(rec, with_c_extension, strict) ==
    IF with_c_extension THEN calculate_phase_shift(rec)
    ELSE _calculate_optimized_python(rec, strict)

(* --------------------- OptimizedPhaseCalculator ----------------------- *)
\* calculate: use the C extension when it is loaded, else the Python code
Calculate(w) ==
    /\ pc[w] = "queued"
    /\ pc' = [pc EXCEPT ![w] = IF c_extension THEN "c_check" ELSE "py_peaks"]
    /\ UNCHANGED <<apart, firmware, c_extension, numpy_empty_is_error, _cache, record, peaks, ci, phase_shifts, frequencies,
                   analysed, result, raised, result_queue, axle, seq, aux, wheel_result>>

Return(w, res) ==
    /\ result' = [result EXCEPT ![w] = res]
    /\ pc' = [pc EXCEPT ![w] = "returned"]
    /\ UNCHANGED raised

Raise(w, exc) ==
    /\ raised' = [raised EXCEPT ![w] = exc]
    /\ pc' = [pc EXCEPT ![w] = "raised"]
    /\ UNCHANGED result

Goto(w, label) ==
    /\ pc' = [pc EXCEPT ![w] = label]
    /\ UNCHANGED <<result, raised>>

(* C extension: calculate_phase_shift *)
CCheckArrays(w) ==
    /\ pc[w] = "c_check"
    /\ IF c_same_length(record[w])
         THEN Goto(w, "c_peaks")
         ELSE Raise(w, "ValueError: Arrays must have same length")
    /\ UNCHANGED <<apart, firmware, c_extension, numpy_empty_is_error, _cache, record, peaks, ci, phase_shifts, frequencies,
                   analysed, result_queue, axle, seq, aux, wheel_result>>

CFindPeaks(w) ==
    /\ pc[w] = "c_peaks"
    /\ LET n == Len(record[w].platform_position)
           found == find_peaks(record[w].platform_position, n \div 10, min_distance)
       IN  /\ peaks' = [peaks EXCEPT ![w] = found]
           /\ IF c_too_few_peaks(Len(found))
                THEN Return(w, Invalid("Not enough peaks found")) /\ UNCHANGED ci
                ELSE /\ Goto(w, IF 1 < Len(found) THEN "c_cycles" ELSE "c_min")
                     /\ ci' = [ci EXCEPT ![w] = 1]
    /\ UNCHANGED <<apart, firmware, c_extension, numpy_empty_is_error, _cache, record, phase_shifts, frequencies, analysed,
                   result_queue, axle, seq, aux, wheel_result>>

CAnalyseCycle(w) ==
    /\ pc[w] = "c_cycles"
    /\ LET i == ci[w]
           start == peaks[w][i]
           end == peaks[w][i + 1]
           time == record[w].time
           frequency == Rat(TicksPerSecond, At(time, end - 1) - At(time, start))
           kept == c_in_band(frequency)
           cyc == calculate_cycle_phase(record[w].tire_force, time, start, end,
                                        record[w].static_weight)
           valid == kept /\ RLe(RInt(0), cyc.phase)
       IN  /\ analysed' = [analysed EXCEPT ![w] = Append(@,
                 [start |-> start, end |-> end, frequency |-> frequency,
                  in_band |-> kept,
                  phase |-> IF kept THEN cyc.phase ELSE NoValue,
                  crossings |-> IF kept THEN cyc.crossings ELSE << >>,
                  fref |-> IF kept THEN cyc.fref ELSE NoValue,
                  top |-> IF kept THEN cyc.top ELSE NoValue,
                  appended |-> valid])]
           /\ phase_shifts' = [phase_shifts EXCEPT ![w] =
                 IF valid THEN Append(@, cyc.phase) ELSE @]
           /\ frequencies' = [frequencies EXCEPT ![w] =
                 IF valid THEN Append(@, frequency) ELSE @]
           /\ ci' = [ci EXCEPT ![w] = i + 1]
           /\ Goto(w, IF i + 1 < Len(peaks[w]) THEN "c_cycles" ELSE "c_min")
    /\ UNCHANGED <<apart, firmware, c_extension, numpy_empty_is_error, _cache, record, peaks, result_queue, axle, seq, aux, wheel_result>>

\* the end of calculate_phase_shift with the cycles array shared by the
\* evaluations of all wheels
CFinishSharedCycles(w) ==
    /\ pc[w] = "c_min"
    /\ LET ps == phase_shifts["left"] \o phase_shifts["right"]
           fs == frequencies["left"] \o frequencies["right"]
       IN  IF Len(ps) = 0
             THEN Return(w, Invalid("No valid cycles found"))
             ELSE LET m == c_min(ps, fs)
                  IN  Return(w, [valid |-> TRUE, error |-> "",
                                 min_phase_shift |-> m.min_phase,
                                 min_phase_freq |-> m.min_freq,
                                 phase_shifts |-> ps,
                                 frequencies |-> fs])
    /\ UNCHANGED <<apart, firmware, c_extension, numpy_empty_is_error, _cache, record, peaks, ci,
                   phase_shifts, frequencies, analysed, result_queue, axle, seq,
                   aux, wheel_result>>

CFinish(w) ==
    /\ pc[w] = "c_min"
    /\ IF Len(phase_shifts[w]) = 0
         THEN Return(w, Invalid("No valid cycles found"))
         ELSE LET m == c_min(phase_shifts[w], frequencies[w])
              IN  Return(w, [valid |-> TRUE, error |-> "",
                             min_phase_shift |-> m.min_phase,
                             min_phase_freq |-> m.min_freq,
                             phase_shifts |-> phase_shifts[w],
                             frequencies |-> frequencies[w]])
    /\ UNCHANGED <<apart, firmware, c_extension, numpy_empty_is_error, _cache, record, peaks, ci, phase_shifts, frequencies,
                   analysed, result_queue, axle, seq, aux, wheel_result>>

(* Python fallback: _calculate_optimized_python *)
PyFindPeaks(w) ==
    /\ pc[w] = "py_peaks"
    /\ LET found == _find_peaks_fast(record[w].platform_position, min_distance)
       IN  /\ peaks' = [peaks EXCEPT ![w] = found]
           /\ IF py_too_few_peaks(found)
                THEN Return(w, Invalid("Nicht genug Peaks gefunden")) /\ UNCHANGED ci
                ELSE /\ Goto(w, IF 1 < Len(found) THEN "py_cycles" ELSE "py_min")
                     /\ ci' = [ci EXCEPT ![w] = 1]
    /\ UNCHANGED <<apart, firmware, c_extension, numpy_empty_is_error, _cache, record, phase_shifts, frequencies, analysed,
                   result_queue, axle, seq, aux, wheel_result>>

\* one pass of the loop of _analyze_cycles_vectorized
PyAnalyseCycle(w) ==
    /\ pc[w] = "py_cycles"
    /\ LET i == ci[w]
           start_idx == peaks[w][i]
           end_idx == peaks[w][i + 1]
           cycle_time == NpSlice(record[w].time, start_idx, end_idx)
           cycle_force == NpSlice(record[w].tire_force, start_idx, end_idx)
       IN  IF cycle_time = << >>
             THEN /\ Raise(w, "IndexError")
                  /\ UNCHANGED <<analysed, phase_shifts, frequencies, ci>>
           ELSE
             LET frequency == Rat(TicksPerSecond,
                                  cycle_time[Len(cycle_time)] - cycle_time[1])
                 kept == py_in_band(frequency)
                 cyc == _calculate_phase_fast(cycle_force, cycle_time,
                                              record[w].static_weight)
                 valid == kept /\ py_phase_usable(cyc.phase)
             IN  /\ analysed' = [analysed EXCEPT ![w] = Append(@,
                       [start |-> start_idx, end |-> end_idx, frequency |-> frequency,
                        in_band |-> kept,
                        phase |-> IF kept THEN cyc.phase ELSE NoValue,
                        crossings |-> IF kept THEN cyc.crossings ELSE << >>,
                        fref |-> IF kept THEN cyc.fref ELSE NoValue,
                        top |-> IF kept THEN cyc.top ELSE NoValue,
                        appended |-> valid])]
                 /\ phase_shifts' = [phase_shifts EXCEPT ![w] =
                       IF valid THEN Append(@, cyc.phase) ELSE @]
                 /\ frequencies' = [frequencies EXCEPT ![w] =
                       IF valid THEN Append(@, frequency) ELSE @]
                 /\ ci' = [ci EXCEPT ![w] = i + 1]
                 /\ Goto(w, IF i + 1 < Len(peaks[w]) THEN "py_cycles" ELSE "py_min")
    /\ UNCHANGED <<apart, firmware, c_extension, numpy_empty_is_error, _cache, record, peaks, result_queue, axle, seq, aux, wheel_result>>

\* "if not results['phase_shifts']" on a numpy array, then np.argmin
PyFinish(w) ==
    /\ pc[w] = "py_min"
    /\ LET ps == phase_shifts[w]
       IN  CASE Len(ps) = 0 ->
                  \* the truth value of an empty array is False up to
                  \* NumPy 2.1 and an error from NumPy 2.2 on
                  IF numpy_empty_is_error
                    THEN Raise(w, "ValueError: truth value of an empty array")
                    ELSE Return(w, Invalid("Keine gueltigen Zyklen"))
             [] Len(ps) = 1 ->
                  IF ps[1] = RInt(0)
                    THEN Return(w, Invalid("Keine gueltigen Zyklen"))
                    ELSE Return(w, [valid |-> TRUE, error |-> "",
                                    min_phase_shift |-> ps[np_argmin(ps)],
                                    min_phase_freq |-> frequencies[w][np_argmin(ps)],
                                    phase_shifts |-> ps,
                                    frequencies |-> frequencies[w]])
             [] OTHER ->
                  Raise(w, "ValueError: truth value of an array is ambiguous")
    /\ UNCHANGED <<apart, firmware, c_extension, numpy_empty_is_error, _cache, record, peaks, ci, phase_shifts, frequencies,
                   analysed, result_queue, axle, seq, aux, wheel_result>>

(* ---------------------------- DataProcessor --------------------------- *)
\* run: _calculate_phase_shift returned, the result is put on the queue
ProcessorPut(w) ==
    /\ pc[w] = "returned"
    /\ result_queue' = Append(result_queue,
                              [type |-> "phase_calculation_result", wheel |-> w,
                               result |-> result[w]])
    /\ pc' = [pc EXCEPT ![w] = "done"]
    /\ UNCHANGED <<apart, firmware, c_extension, numpy_empty_is_error, _cache, record, peaks, ci, phase_shifts, frequencies,
                   analysed, result, raised, axle, seq, aux, wheel_result>>

\* run: "except Exception" prints the error, nothing is put on the queue
ProcessorCatch(w) ==
    /\ pc[w] = "raised"
    /\ pc' = [pc EXCEPT ![w] = "done"]
    /\ UNCHANGED <<apart, firmware, c_extension, numpy_empty_is_error, _cache, record, peaks, ci, phase_shifts, frequencies,
                   analysed, result, raised, result_queue, axle, seq, aux, wheel_result>>

WheelStep(w) ==
    \/ Calculate(w)
    \/ CCheckArrays(w)
    \/ CFindPeaks(w)
    \/ CAnalyseCycle(w)
    \/ CFinish(w)
    \/ PyFindPeaks(w)
    \/ PyAnalyseCycle(w)
    \/ PyFinish(w)
    \/ ProcessorPut(w)
    \/ ProcessorCatch(w)

Next == \E w \in Wheels : WheelStep(w)

Spec == Init /\ [][Next]_vars

(* ------------------------ wheel and axle results ---------------------- *)
phase_shift_min == 35
limit_phi == 30
limit_rfa == 30
limit_rig == 35
a_rig == Rat(571, 1000)
b_rig == 46
rig_lo_lim == 160
rig_hi_lim == 400
platform_amplitude == 3

\* np.min and np.max of a non-empty array of samples
np_min(xs) == CHOOSE x \in { xs[k] : k \in 1..Len(xs) } :
                  \A k \in 1..Len(xs) : x <= xs[k]
np_max(xs) == CHOOSE x \in { xs[k] : k \in 1..Len(xs) } :
                  \A k \in 1..Len(xs) : x >= xs[k]

\* calculate_rfa_max with the flags swapped in the two single-formula rows
calculate_rfa_max_rows_swapped(tire_force, static_weight, f_under_flag, f_over_flag) ==
    LET fmin == np_min(tire_force)
        fmax == np_max(tire_force)
        fa_max == IF ~f_under_flag /\ ~f_over_flag THEN fmax - static_weight
                  ELSE IF f_under_flag /\ ~f_over_flag THEN static_weight - fmin
                  ELSE Max2(fmax - static_weight, static_weight - fmin)
    IN  [rfa_max |-> IF static_weight > 0 THEN Rat(fa_max * 100, static_weight)
                     ELSE RInt(0),
         fa_max |-> fa_max, under_flag |-> f_under_flag, over_flag |-> f_over_flag]

\* calculate_rfa_max dividing by every static weight
calculate_rfa_max_unguarded(tire_force, static_weight, f_under_flag, f_over_flag) ==
    LET fmin == np_min(tire_force)
        fmax == np_max(tire_force)
        fa_max == IF ~f_under_flag /\ ~f_over_flag THEN static_weight - fmin
                  ELSE IF f_under_flag /\ ~f_over_flag THEN fmax - static_weight
                  ELSE Max2(fmax - static_weight, static_weight - fmin)
    IN  [rfa_max |-> Rat(fa_max * 100, static_weight),
         fa_max |-> fa_max, under_flag |-> f_under_flag, over_flag |-> f_over_flag]

\* calculate_rfa_max: FAmax by the overflow flags, RFAmax in percent; the
\* flags are those detect_signal_overflow_underflow returned
calculate_rfa_max(tire_force, static_weight, f_under_flag, f_over_flag) ==
    LET fmin == np_min(tire_force)
        fmax == np_max(tire_force)
        fa_max == IF ~f_under_flag /\ ~f_over_flag THEN static_weight - fmin
                  ELSE IF f_under_flag /\ ~f_over_flag THEN fmax - static_weight
                  ELSE Max2(fmax - static_weight, static_weight - fmin)
    IN  [rfa_max |-> IF static_weight > 0 THEN Rat(fa_max * 100, static_weight)
                     ELSE RInt(0),
         fa_max |-> fa_max, under_flag |-> f_under_flag, over_flag |-> f_over_flag]

\* calculate_egea_rigidity
calculate_egea_rigidity(h25_amplitude, ep) ==
    LET rigidity == RAdd(RMul(a_rig, RDiv(h25_amplitude, RInt(ep))), RInt(b_rig))
        warning_underinflation == RLt(rigidity, RInt(rig_lo_lim))
        warning_overinflation == RLt(RInt(rig_hi_lim), rigidity)
    IN  [rigidity |-> rigidity, h25 |-> h25_amplitude, platform_amplitude |-> ep,
         pressure_ok |-> ~(warning_underinflation \/ warning_overinflation),
         underinflation |-> warning_underinflation,
         overinflation |-> warning_overinflation]

\* evaluate_phase_shift with a strict comparison against the threshold
evaluate_phase_shift_strict(min_phase) ==
    IF min_phase = None
      THEN [pass |-> FALSE, reason |-> "No valid phase shift measured",
            min_phase |-> None, integer_min_phase |-> 0]
      ELSE [pass |-> RLt(RInt(phase_shift_min), min_phase), reason |-> "",
            min_phase |-> min_phase, integer_min_phase |-> RTrunc(min_phase)]

\* evaluate_phase_shift of PhaseShiftProcessor, min_phase being
\* phase_data["min_phase_shift"]
evaluate_phase_shift(min_phase) ==
    IF min_phase = None
      THEN [pass |-> FALSE, reason |-> "No valid phase shift measured",
            min_phase |-> None, integer_min_phase |-> 0]
      ELSE [pass |-> RLe(RInt(phase_shift_min), min_phase), reason |-> "",
            min_phase |-> min_phase, integer_min_phase |-> RTrunc(min_phase)]

\* the difference in percent of the smaller of the two values
_calculate_difference_percent_of_min(val1, val2) ==
    LET a1 == IF RLt(val1, RInt(0)) THEN RSub(RInt(0), val1) ELSE val1
        a2 == IF RLt(val2, RInt(0)) THEN RSub(RInt(0), val2) ELSE val2
        min_val == IF RLt(a1, a2) THEN a1 ELSE a2
        diff == RSub(val1, val2)
        adiff == IF RLt(diff, RInt(0)) THEN RSub(RInt(0), diff) ELSE diff
    IN  IF val1 = RInt(0) /\ val2 = RInt(0) THEN RInt(0)
        ELSE IF min_val = RInt(0) THEN RInt(0)
        ELSE RMul(RDiv(adiff, min_val), RInt(100))

\* _calculate_difference_percent of SuspensionTestController
_calculate_difference_percent(val1, val2) ==
    LET a1 == IF RLt(val1, RInt(0)) THEN RSub(RInt(0), val1) ELSE val1
        a2 == IF RLt(val2, RInt(0)) THEN RSub(RInt(0), val2) ELSE val2
        max_val == IF RLt(a1, a2) THEN a2 ELSE a1
        diff == RSub(val1, val2)
        adiff == IF RLt(diff, RInt(0)) THEN RSub(RInt(0), diff) ELSE diff
    IN  IF val1 = RInt(0) /\ val2 = RInt(0) THEN RInt(0)
        ELSE IF max_val = RInt(0) THEN RInt(0)
        ELSE RMul(RDiv(adiff, max_val), RInt(100))

\* the result a wheel's evaluation put on the queue
Queued(w) == { k \in 1..Len(result_queue) : result_queue[k].wheel = w }
QueuedResult(w) == result_queue[CHOOSE k \in Queued(w) : TRUE].result

\* phi-min of a phase result: None when the result carries none
MinPhaseOf(res) == IF res.valid THEN res.min_phase_shift ELSE None

\* absolute criterion of one wheel
WheelPass(res) == evaluate_phase_shift(MinPhaseOf(res)).pass

\* the wheel result with overall_pass gated by the tire pressure warnings
process_complete_test_gated(res, rec, a) ==
    LET ev == evaluate_phase_shift(MinPhaseOf(res))
        rig == calculate_egea_rigidity(a.h25, platform_amplitude)
    IN  [assembled |-> TRUE, phase_shift_result |-> res,
         min_phase_shift |-> ev.min_phase,
         integer_min_phase |-> ev.integer_min_phase,
         force_analysis |-> calculate_rfa_max(rec.tire_force, rec.static_weight,
                                              a.under_flag, a.over_flag),
         rigidity_result |-> rig,
         absolute_criterion_pass |-> ev.pass,
         overall_pass |-> ev.pass /\ rig.pressure_ok,
         reason |-> ev.reason]

\* Wheel Result Assembler: the EGEATestResult of a phase result res, the
\* record rec it was computed from and the force-analysis inputs a
process_complete_test(res, rec, a) ==
    LET ev == evaluate_phase_shift(MinPhaseOf(res))
        rig == calculate_egea_rigidity(a.h25, platform_amplitude)
    IN  [assembled |-> TRUE, phase_shift_result |-> res,
         min_phase_shift |-> ev.min_phase,
         integer_min_phase |-> ev.integer_min_phase,
         force_analysis |-> calculate_rfa_max(rec.tire_force, rec.static_weight,
                                              a.under_flag, a.over_flag),
         rigidity_result |-> rig,
         absolute_criterion_pass |-> ev.pass,
         overall_pass |-> ev.pass,
         reason |-> ev.reason]

\* calculate_imbalances with strict comparisons against the limits
calculate_imbalances_strict(l, r) ==
    LET both == l.min_phase_shift # None /\ r.min_phase_shift # None
        d_phi == IF both
                   THEN _calculate_difference_percent(l.min_phase_shift, r.min_phase_shift)
                 ELSE NoValue
        d_rfa == _calculate_difference_percent(l.force_analysis.rfa_max,
                                               r.force_analysis.rfa_max)
        d_rig == _calculate_difference_percent(l.rigidity_result.rigidity,
                                               r.rigidity_result.rigidity)
    IN  [computed |-> TRUE,
         left_wheel |-> l.phase_shift_result, right_wheel |-> r.phase_shift_result,
         left |-> l, right |-> r,
         d_phi_min |-> d_phi, d_phi_min_computable |-> both,
         d_rfa_max |-> d_rfa, d_rigidity |-> d_rig,
         overall_pass |-> /\ l.overall_pass /\ r.overall_pass /\ both
                          /\ RLt(d_rfa, RInt(limit_rfa))
                          /\ RLt(d_phi, RInt(limit_phi))
                          /\ RLt(d_rig, RInt(limit_rig)),
         reason |-> IF both THEN "" ELSE "no valid phi-min"]

\* AxleTestResult.calculate_imbalances on the two wheel results
calculate_imbalances(l, r) ==
    LET both == l.min_phase_shift # None /\ r.min_phase_shift # None
        d_phi == IF both
                   THEN _calculate_difference_percent(l.min_phase_shift, r.min_phase_shift)
                 ELSE NoValue
        d_rfa == _calculate_difference_percent(l.force_analysis.rfa_max,
                                               r.force_analysis.rfa_max)
        d_rig == _calculate_difference_percent(l.rigidity_result.rigidity,
                                               r.rigidity_result.rigidity)
    IN  [computed |-> TRUE,
         left_wheel |-> l.phase_shift_result, right_wheel |-> r.phase_shift_result,
         left |-> l, right |-> r,
         d_phi_min |-> d_phi, d_phi_min_computable |-> both,
         d_rfa_max |-> d_rfa, d_rigidity |-> d_rig,
         overall_pass |-> /\ l.overall_pass /\ r.overall_pass /\ both
                          /\ RLe(d_rfa, RInt(limit_rfa))
                          /\ RLe(d_phi, RInt(limit_phi))
                          /\ RLe(d_rig, RInt(limit_rig)),
         reason |-> IF both THEN "" ELSE "no valid phi-min"]

\* process_complete_test of one wheel whose phase result is on the queue
ProcessCompleteTest(w) ==
    /\ Queued(w) # {}
    /\ ~wheel_result[w].assembled
    /\ wheel_result' = [wheel_result EXCEPT ![w] =
           process_complete_test(QueuedResult(w), record[w], aux[w])]
    /\ UNCHANGED <<apart, firmware, c_extension, numpy_empty_is_error, _cache, record, pc, peaks, ci, phase_shifts, frequencies,
                   analysed, result, raised, result_queue, axle, seq, aux>>

\* both sibling wheel evaluations have completed with a result and the axle
\* has not been evaluated: the axle evaluation can run
AxleReady == ~axle.computed /\ \A w \in Wheels : Queued(w) # {}

\* the axle evaluation that waits for one wheel result only
AxleEvaluateOneWheel ==
    /\ ~axle.computed
    /\ \E w \in Wheels : Queued(w) # {}
    /\ LET l == process_complete_test(
                   IF Queued("left") # {} THEN QueuedResult("left") ELSE NoResult,
                   record["left"], aux["left"])
           r == process_complete_test(
                   IF Queued("right") # {} THEN QueuedResult("right") ELSE NoResult,
                   record["right"], aux["right"])
       IN  /\ axle' = calculate_imbalances(l, r)
           /\ wheel_result' = [w \in Wheels |-> IF w = "left" THEN l ELSE r]
    /\ UNCHANGED <<apart, firmware, c_extension, numpy_empty_is_error, _cache, record, pc, peaks, ci, phase_shifts, frequencies,
                   analysed, result, raised, result_queue, seq, aux>>

\* run_axle_test: once both wheel results exist, assemble the two wheels and
\* run calculate_imbalances
AxleEvaluate ==
    /\ AxleReady
    /\ LET l == process_complete_test(QueuedResult("left"), record["left"], aux["left"])
           r == process_complete_test(QueuedResult("right"), record["right"], aux["right"])
       IN  /\ axle' = calculate_imbalances(l, r)
           /\ wheel_result' = [w \in Wheels |-> IF w = "left" THEN l ELSE r]
    /\ UNCHANGED <<apart, firmware, c_extension, numpy_empty_is_error, _cache, record, pc, peaks, ci, phase_shifts, frequencies,
                   analysed, result, raised, result_queue, seq, aux>>

NextAxle == Next \/ AxleEvaluate

SpecAxle == InitAxle /\ [][NextAxle]_vars

(* ----------------------------- Test Sequencer -------------------------- *)
\* plausible static load (daN) and shortest frequency sweep (tenths of a
\* second)
weight_min == 100
weight_max == 1100
min_sweep_time == 75

\* the sweep is followed in steps of SweepStepTime tenths of a second, in
\* which the platform frequency falls by SweepStepHz or stays
SweepStepHz == min_freq
SweepStepTime == 5 * 5
\* a sweep that has not completed after MaxSweepTime is given up
MaxSweepTime == 100

WeighedLoads == {weight_min - 1, weight_min}
AbortEvents == {"vehicle_left", "sensor_fault", "cancelled"}
NonTerminal == {"WEIGHING", "RIGIDITY_EXCITATION", "FREQUENCY_SWEEP", "EVALUATING"}

\* the record of a sequencer run: one kind of cycle, at 9 Hz with a down and
\* an up crossing
SeqCycleKinds ==
    { k \in CycleKinds : k.dt = LeadDt /\ k.fp.shape = "downup" /\ k.rise = 0 }

\* a test run of the left wheel: the sequencer is idle, the record is the one
\* the acquisition will have captured when the sweep has completed
InitSeq ==
    /\ InitVars
    /\ NothingElse
    /\ c_extension \in BOOLEAN
    /\ numpy_empty_is_error \in BOOLEAN
    /\ _cache = << >>
    /\ record \in { [w \in Wheels |-> IF w = "left" THEN r ELSE NoRecord] :
                      r \in Records(SeqCycleKinds, MaxCycles, 0) }
    /\ pc = [w \in Wheels |-> IF record[w] = NoRecord THEN "absent" ELSE "captured"]
    /\ peaks = [w \in Wheels |-> << >>]
    /\ ci = [w \in Wheels |-> 0]
    /\ phase_shifts = [w \in Wheels |-> << >>]
    /\ frequencies = [w \in Wheels |-> << >>]
    /\ analysed = [w \in Wheels |-> << >>]
    /\ result = [w \in Wheels |-> NoResult]
    /\ raised = [w \in Wheels |-> "none"]
    /\ result_queue = << >>
    /\ axle = NoAxle
    /\ wheel_result = [w \in Wheels |-> NoWheelResult]
    /\ seq = NoSequencer
    /\ aux = [w \in Wheels |-> PlainAux]

\* the sequencer enters state st
Enter(st) == [seq EXCEPT !.state = st, !.path = Append(@, st)]

SweepComplete(q) == q.sweep_freq <= min_freq /\ q.sweep_time >= min_sweep_time

\* every wheel of the run has been evaluated and, where a phase result
\* exists, assembled
EvaluationEnded ==
    \A w \in Wheels :
        Present(w) => /\ pc[w] = "done"
                      /\ Queued(w) # {} => wheel_result[w].assembled

\* the synchronous evaluation call is in progress
EvaluationRunning ==
    seq.state = "EVALUATING" /\ seq.invoked > 0 /\ ~EvaluationEnded

SeqOnly == UNCHANGED <<apart, firmware, c_extension, numpy_empty_is_error, _cache, record, pc, peaks, ci, phase_shifts,
                       frequencies, analysed, result, raised, result_queue,
                       axle, aux, wheel_result>>

\* an abort (vehicle left, sensor fault, cancellation) is reported
AbortRequest(e) ==
    /\ seq.state \in NonTerminal
    /\ seq.abort = ""
    /\ seq' = [seq EXCEPT !.abort = e, !.abort_seen_in = seq.state,
                          !.running_at_request = EvaluationRunning]
    /\ SeqOnly

\* the sequencer acts on a reported abort
SeqFail ==
    /\ seq.state \in NonTerminal
    /\ seq.abort # ""
    /\ ~EvaluationRunning
    /\ seq' = [Enter("FAILED") EXCEPT !.reason = seq.abort]
    /\ SeqOnly

SeqStart ==
    /\ seq.state = "IDLE"
    /\ seq' = Enter("WEIGHING")
    /\ SeqOnly

\* static weight measurement
SeqWeigh ==
    /\ seq.state = "WEIGHING"
    /\ seq.abort = ""
    /\ seq.weight = 0
    /\ \E load \in WeighedLoads : seq' = [seq EXCEPT !.weight = load]
    /\ SeqOnly

SeqWeighed ==
    /\ seq.state = "WEIGHING"
    /\ seq.abort = ""
    /\ weight_min <= seq.weight /\ seq.weight <= weight_max
    /\ seq' = Enter("RIGIDITY_EXCITATION")
    /\ SeqOnly

\* the excitation at 25 Hz is over, the sweep starts at max_freq
SeqRigidityDone ==
    /\ seq.state = "RIGIDITY_EXCITATION"
    /\ seq.abort = ""
    /\ seq' = [Enter("FREQUENCY_SWEEP") EXCEPT !.sweep_freq = max_freq]
    /\ SeqOnly

SeqSweepStep ==
    /\ seq.state = "FREQUENCY_SWEEP"
    /\ seq.abort = ""
    /\ ~SweepComplete(seq)
    /\ seq.sweep_time < MaxSweepTime
    /\ \E fall \in {0, SweepStepHz} :
          /\ seq.sweep_freq - fall >= min_freq
          /\ seq' = [seq EXCEPT !.sweep_freq = @ - fall,
                                !.sweep_time = @ + SweepStepTime]
    /\ SeqOnly

SeqSweepTimeout ==
    /\ seq.state = "FREQUENCY_SWEEP"
    /\ seq.abort = ""
    /\ ~SweepComplete(seq)
    /\ seq.sweep_time >= MaxSweepTime
    /\ seq' = [Enter("FAILED") EXCEPT !.reason = "sweep_timeout"]
    /\ SeqOnly

\* the sweep that ends as soon as min_freq is reached
SeqSweepDoneEarly ==
    /\ seq.state = "FREQUENCY_SWEEP"
    /\ seq.abort = ""
    /\ seq.sweep_freq <= min_freq
    /\ seq' = Enter("EVALUATING")
    /\ SeqOnly

SeqSweepDone ==
    /\ seq.state = "FREQUENCY_SWEEP"
    /\ seq.abort = ""
    /\ SweepComplete(seq)
    /\ seq' = Enter("EVALUATING")
    /\ SeqOnly

\* the evaluation call that can be repeated
SeqInvokeAgain ==
    /\ seq.state = "EVALUATING"
    /\ seq.abort = ""
    /\ ~EvaluationRunning
    /\ seq.invoked <= 1
    /\ seq' = [seq EXCEPT !.invoked = @ + 1]
    /\ pc' = [w \in Wheels |-> IF Present(w) THEN "queued" ELSE pc[w]]
    /\ UNCHANGED <<apart, firmware, c_extension, numpy_empty_is_error, _cache, record, peaks, ci, phase_shifts, frequencies,
                   analysed, result, raised, result_queue, axle, aux, wheel_result>>

\* EVALUATING hands the captured record to the evaluation, once
SeqInvoke ==
    /\ seq.state = "EVALUATING"
    /\ seq.abort = ""
    /\ seq.invoked = 0
    /\ seq' = [seq EXCEPT !.invoked = @ + 1]
    /\ pc' = [w \in Wheels |-> IF Present(w) THEN "queued" ELSE pc[w]]
    /\ UNCHANGED <<apart, firmware, c_extension, numpy_empty_is_error, _cache, record, peaks, ci, phase_shifts, frequencies,
                   analysed, result, raised, result_queue, axle, aux, wheel_result>>

\* SeqFinish that does not look at a reported abort
SeqFinishUnchecked ==
    /\ seq.state = "EVALUATING"
    /\ seq.invoked > 0
    /\ EvaluationEnded
    /\ seq' = IF \A w \in Wheels : Present(w) => wheel_result[w].assembled
                THEN Enter("DONE")
              ELSE [Enter("FAILED") EXCEPT !.reason = "evaluation_error"]
    /\ SeqOnly

SeqFinish ==
    /\ seq.state = "EVALUATING"
    /\ seq.abort = ""
    /\ seq.invoked > 0
    /\ EvaluationEnded
    /\ seq' = IF \A w \in Wheels : Present(w) => wheel_result[w].assembled
                THEN Enter("DONE")
              ELSE [Enter("FAILED") EXCEPT !.reason = "evaluation_error"]
    /\ SeqOnly

NextSeq ==
    \/ \E e \in AbortEvents : AbortRequest(e)
    \/ SeqFail
    \/ SeqStart
    \/ SeqWeigh
    \/ SeqWeighed
    \/ SeqRigidityDone
    \/ SeqSweepStep
    \/ SeqSweepTimeout
    \/ SeqSweepDone
    \/ SeqInvoke
    \/ \E w \in Wheels : WheelStep(w)
    \/ \E w \in Wheels : ProcessCompleteTest(w)
    \/ SeqFinish

SpecSeq == InitSeq /\ [][NextSeq]_vars

(* --------------------- assembled results of an axle ------------------- *)
\* phi-min of the simulated wheel results, in degrees, around the threshold
\* and such that 35 against 50 is an imbalance of exactly limit_phi
MockPhases == {phase_shift_min - 1, phase_shift_min, 50, 51}

\* tire force of the simulated wheels, the first sample being the static
\* weight: the drop below it is larger in the first two, the rise above it
\* in the third; the last two are those of a scale that reads no load and a
\* negative load
MockForces ==
    { <<500, 430, 560>>, <<500, 400, 570>>, <<500, 390, 620>>,
      <<0, -70, 60>>, <<-500, -570, -440>> }

\* rigidities of the simulated wheels in N/mm: below rig_lo_lim, inside the
\* limits, above rig_hi_lim
MockRigidities == {rig_lo_lim - 30, 200, rig_hi_lim + 20}

\* the H25 amplitude that gives the rigidity rig
H25For(rig) == RDiv(RMul(RInt(rig - b_rig), RInt(platform_amplitude)), a_rig)

\* the phase results of the simulated wheels: a valid one per phi-min, and
\* the one of a wheel without a valid cycle
MockPhaseResult(p) ==
    [valid |-> TRUE, error |-> "", min_phase_shift |-> RInt(p),
     min_phase_freq |-> RInt(max_freq), phase_shifts |-> <<RInt(p)>>,
     frequencies |-> <<RInt(max_freq)>>]

MockPhaseResults ==
    { MockPhaseResult(p) : p \in MockPhases } \cup { Invalid("No valid cycles found") }

MockRecord(f) == [NoRecord EXCEPT !.tire_force = f, !.static_weight = f[1]]

\* the two wheels of an axle after their phase evaluations: each result is
\* on the queue, the overflow flags and H25 of each wheel are known
InitEGEA ==
    /\ InitVars
    /\ NothingElse
    /\ c_extension = TRUE
    /\ numpy_empty_is_error = FALSE
    /\ _cache = << >>
    /\ record \in [Wheels -> { MockRecord(f) : f \in MockForces }]
    /\ pc = [w \in Wheels |-> "done"]
    /\ peaks = [w \in Wheels |-> << >>]
    /\ ci = [w \in Wheels |-> 0]
    /\ phase_shifts = [w \in Wheels |-> << >>]
    /\ frequencies = [w \in Wheels |-> << >>]
    /\ analysed = [w \in Wheels |-> << >>]
    /\ result \in [Wheels -> MockPhaseResults]
    /\ raised = [w \in Wheels |-> "none"]
    /\ result_queue = << [type |-> "phase_calculation_result", wheel |-> "left",
                          result |-> result["left"]],
                         [type |-> "phase_calculation_result", wheel |-> "right",
                          result |-> result["right"]] >>
    /\ axle = NoAxle
    /\ wheel_result = [w \in Wheels |-> NoWheelResult]
    /\ seq = NoSequencer
    /\ aux \in [Wheels -> { [under_flag |-> u, over_flag |-> o, h25 |-> H25For(g)] :
                               u \in BOOLEAN, o \in BOOLEAN, g \in MockRigidities }]

NextEGEA ==
    \/ \E w \in Wheels : ProcessCompleteTest(w)
    \/ AxleEvaluate

SpecEGEA == InitEGEA /\ [][NextEGEA]_vars

(* ------------------- imbalances of given wheel results ---------------- *)
\* the values of the wheel results test_axle_imbalance_calculation builds,
\* and an RFAmax of zero
ExamplePhases == {phase_shift_min, 45}
ExampleRfaMax == {0, 15, 25}
ExampleRigidities == {180, 200}

\* _create_mock_result: a wheel result with the given phi-min (none when
\* has_phase is false), RFAmax and rigidity
_create_mock_result(has_phase, min_phase, rfa_max, rigidity) ==
    LET res == IF has_phase THEN MockPhaseResult(min_phase)
               ELSE Invalid("No valid cycles found")
        ev == evaluate_phase_shift(MinPhaseOf(res))
    IN  [NoWheelResult EXCEPT
           !.assembled = TRUE,
           !.phase_shift_result = res,
           !.min_phase_shift = ev.min_phase,
           !.integer_min_phase = ev.integer_min_phase,
           !.force_analysis.rfa_max = RInt(rfa_max),
           !.rigidity_result.rigidity = RInt(rigidity),
           !.absolute_criterion_pass = ev.pass,
           !.overall_pass = ev.pass,
           !.reason = ev.reason]

ExampleResults ==
    { _create_mock_result(hp, p, f, g) :
        hp \in BOOLEAN, p \in ExamplePhases, f \in ExampleRfaMax,
        g \in ExampleRigidities }

\* an AxleTestResult built from two given wheel results
InitImbalance ==
    /\ InitVars
    /\ NothingElse
    /\ c_extension = TRUE
    /\ numpy_empty_is_error = FALSE
    /\ _cache = << >>
    /\ record = [w \in Wheels |-> NoRecord]
    /\ pc = [w \in Wheels |-> "absent"]
    /\ peaks = [w \in Wheels |-> << >>]
    /\ ci = [w \in Wheels |-> 0]
    /\ phase_shifts = [w \in Wheels |-> << >>]
    /\ frequencies = [w \in Wheels |-> << >>]
    /\ analysed = [w \in Wheels |-> << >>]
    /\ result = [w \in Wheels |-> NoResult]
    /\ raised = [w \in Wheels |-> "none"]
    /\ result_queue = << >>
    /\ axle = NoAxle
    /\ wheel_result \in [Wheels -> ExampleResults]
    /\ seq = NoSequencer
    /\ aux = [w \in Wheels |-> PlainAux]

\* axle_result.calculate_imbalances() on the two wheel results
CalculateImbalances ==
    /\ ~axle.computed
    /\ \A w \in Wheels : wheel_result[w].assembled
    /\ axle' = calculate_imbalances(wheel_result["left"], wheel_result["right"])
    /\ UNCHANGED <<apart, firmware, c_extension, numpy_empty_is_error, _cache, record, pc, peaks, ci, phase_shifts, frequencies,
                   analysed, result, raised, result_queue, seq, aux, wheel_result>>

NextImbalance == CalculateImbalances

SpecImbalance == InitImbalance /\ [][NextImbalance]_vars

(* ------------------- one record evaluated twice ----------------------- *)
\* the DataProcessor takes the same record from its data queue twice and
\* hands it to its one calculator each time; the first call is kept under
\* "left", the second under "right" and starts when the first has ended
InitTwice ==
    /\ InitVars
    /\ NothingElse
    /\ c_extension \in BOOLEAN
    /\ numpy_empty_is_error \in BOOLEAN
    /\ _cache = << >>
    /\ record \in { [w \in Wheels |-> r] : r \in Records(CycleKinds, MaxCycles, MaxDrop) }
    /\ pc = [w \in Wheels |-> IF w = "left" THEN "queued" ELSE "captured"]
    /\ peaks = [w \in Wheels |-> << >>]
    /\ ci = [w \in Wheels |-> 0]
    /\ phase_shifts = [w \in Wheels |-> << >>]
    /\ frequencies = [w \in Wheels |-> << >>]
    /\ analysed = [w \in Wheels |-> << >>]
    /\ result = [w \in Wheels |-> NoResult]
    /\ raised = [w \in Wheels |-> "none"]
    /\ result_queue = << >>
    /\ axle = NoAxle
    /\ wheel_result = [w \in Wheels |-> NoWheelResult]
    /\ seq = NoSequencer
    /\ aux = [w \in Wheels |-> PlainAux]

\* the second call starting with the lists of phases and frequencies the
\* first call left behind
CalculateAgainKeepingLists ==
    /\ pc["left"] = "done"
    /\ pc["right"] = "captured"
    /\ pc' = [pc EXCEPT !["right"] = "queued"]
    /\ phase_shifts' = [phase_shifts EXCEPT !["right"] = phase_shifts["left"]]
    /\ frequencies' = [frequencies EXCEPT !["right"] = frequencies["left"]]
    /\ UNCHANGED <<apart, firmware, c_extension, numpy_empty_is_error, _cache, record, peaks, ci,
                   analysed, result, raised, result_queue, axle, seq, aux,
                   wheel_result>>

\* run: the loop takes the next item from the data queue; every list of the
\* evaluation is a local of the call and starts empty
CalculateAgain ==
    /\ pc["left"] = "done"
    /\ pc["right"] = "captured"
    /\ pc' = [pc EXCEPT !["right"] = "queued"]
    /\ UNCHANGED <<apart, firmware, c_extension, numpy_empty_is_error, _cache, record, peaks, ci,
                   phase_shifts, frequencies, analysed, result, raised,
                   result_queue, axle, seq, aux, wheel_result>>

NextTwice ==
    \/ \E w \in Wheels : WheelStep(w)
    \/ CalculateAgain

SpecTwice == InitTwice /\ [][NextTwice]_vars

(* --------------------------- cabinet firmware ------------------------- *)
\* the 10 ms ticks a run of the firmware lasts
MaxTicks == 105

\* the largest run-time byte of a motor command
MaxRunTime == 1

\* the changes of the top-position sensor in a run
MaxSensorChanges == 4

EUSEMA_DMS_RIGHT == 0
EUSEMA_DMS_LEFT == 1
EUSEMA_MOTOR_STATUS == 6
EUSEMA_TOP_POSITION == 7

\* the evaluation engine and everything around it
engine == <<c_extension, numpy_empty_is_error, _cache, record, pc, peaks, ci,
            phase_shifts, frequencies, analysed, result, raised, result_queue,
            axle, seq, aux, wheel_result>>

\* no record is evaluated while the firmware runs
NoEvaluation ==
    /\ c_extension = TRUE
    /\ numpy_empty_is_error = FALSE
    /\ _cache = << >>
    /\ record = [w \in Wheels |-> NoRecord]
    /\ pc = [w \in Wheels |-> "absent"]
    /\ peaks = [w \in Wheels |-> << >>]
    /\ ci = [w \in Wheels |-> 0]
    /\ phase_shifts = [w \in Wheels |-> << >>]
    /\ frequencies = [w \in Wheels |-> << >>]
    /\ analysed = [w \in Wheels |-> << >>]
    /\ result = [w \in Wheels |-> NoResult]
    /\ raised = [w \in Wheels |-> "none"]
    /\ result_queue = << >>
    /\ axle = NoAxle
    /\ wheel_result = [w \in Wheels |-> NoWheelResult]
    /\ seq = NoSequencer
    /\ aux = [w \in Wheels |-> PlainAux]

\* SET_CAN_ID(reg, a, b, c, d): the 29-bit identifier the registers SIDH,
\* SIDL, EIDH and EIDL of a buffer hold, for a sub-ID d below 32
SET_CAN_ID(a, b, c, d) == ((a * 256 + b) * 256 + c) * 32 + d

\* the identifier 'E' 'U' 'S' with sub-ID d
EUS(d) == SET_CAN_ID(69, 85, 83, d)

\* x >> 8 and x & 0xFF, written to an 8-bit data register
HighByte(x) == (x \div 256) % 256
LowByte(x) == x % 256

\* the two messages of a measurement point, in the order they are sent
SendEusemaDmsData(g) ==
    << [id |-> EUS(EUSEMA_DMS_LEFT), dlc |-> 8,
        data |-> <<HighByte(g[1]), LowByte(g[1]), HighByte(g[2]), LowByte(g[2]),
                   HighByte(g[3]), LowByte(g[3]), HighByte(g[4]), LowByte(g[4])>>],
       [id |-> EUS(EUSEMA_DMS_RIGHT), dlc |-> 8,
        data |-> <<HighByte(g[5]), LowByte(g[5]), HighByte(g[6]), LowByte(g[6]),
                   HighByte(g[7]), LowByte(g[7]), HighByte(g[8]), LowByte(g[8])>>] >>

\* UpdateMotorTimers for one motor: its MOTOR_CONTROL m and its output pin
UpdateMotorTimers(m, pin) ==
    IF m.remaining_time > 0
    THEN IF m.remaining_time - 1 = 0
         THEN [motor |-> [running |-> 0, remaining_time |-> 0], pin |-> 0]
         ELSE [motor |-> [m EXCEPT !.remaining_time = @ - 1], pin |-> pin]
    ELSE [motor |-> m, pin |-> pin]

\* the motor mask of the status messages
MotorMask(ml, mr) ==
    (IF ml.running # 0 THEN 1 ELSE 0) + (IF mr.running # 0 THEN 2 ELSE 0)

SendMotorStatus(ml, mr) ==
    LET max_time == IF ml.remaining_time > mr.remaining_time
                    THEN (ml.remaining_time \div 100) % 256
                    ELSE (mr.remaining_time \div 100) % 256
    IN [id |-> EUS(EUSEMA_MOTOR_STATUS), dlc |-> 2,
        data |-> <<MotorMask(ml, mr), max_time>>]

SendTopPositionMessage(t) ==
    [id |-> EUS(EUSEMA_TOP_POSITION), dlc |-> 2, data |-> <<1, t % 256>>]

\* lamp_state stays 0: no lamp command is received
SendSystemStatus(ml, mr, flag, g) ==
    LET weight_left == (g[1] + g[2] + g[3] + g[4]) % 65536
        weight_right == (g[5] + g[6] + g[7] + g[8]) % 65536
    IN [id |-> EUS(5), dlc |-> 8,
        data |-> <<MotorMask(ml, mr) + (IF flag # 0 THEN 4 ELSE 0), 0,
                   HighByte(weight_left), LowByte(weight_left),
                   HighByte(weight_right), LowByte(weight_right), 0, 0>>]

\* the smaller of two numbers
Least(a, b) == IF a < b THEN a ELSE b

\* lowPriorityIntHandler, Timer 0: the 10 ms tick. The main loop has served
\* the tick before: one pass of the loop is shorter than the timer period
Timer0Interrupt ==
    /\ t10_sync = 0
    /\ t_10ms < MaxTicks
    /\ t10_sync' = 1
    /\ t_10ms' = t_10ms + 1
    /\ tcnt_10' = IF tcnt_10 + 1 = 10 THEN 0 ELSE tcnt_10 + 1
    /\ tcnt_100' = IF tcnt_100 + 1 = 100 THEN 0 ELSE tcnt_100 + 1
    /\ UNCHANGED <<motor_left, motor_right, MOTOR_LEFT, MOTOR_RIGHT, t1_sync,
                   gewichte, TOP_SENSOR, top_position_flag, last_top_state,
                   can_tx, observed, engine, apart>>

\* lowPriorityIntHandler, Timer 2
Timer2Interrupt ==
    /\ t1_sync = 0
    /\ t1_sync' = 1
    /\ UNCHANGED <<motor_left, motor_right, MOTOR_LEFT, MOTOR_RIGHT, t_10ms,
                   tcnt_10, tcnt_100, t10_sync, gewichte, TOP_SENSOR,
                   top_position_flag, last_top_state, can_tx, observed, engine, apart>>

\* lowPriorityIntHandler, RXB1 with sub-ID EUSEMA_MOTOR_CMD: the message has
\* the length dlc, the motor mask in byte 0 and the run time in byte 1. The
\* controller sends a start command while both motors stand, and a stop
\* command at any time
ProcessMotorCommand(dlc, motor_mask, runtime) ==
    LET accepted == dlc % 16 >= 2
        left_bit == motor_mask % 2 = 1
        right_bit == (motor_mask \div 2) % 2 = 1
        Started == [running |-> 1, remaining_time |-> (runtime * 100) % 65536]
        Hit(m) == accepted /\ (IF m = "left" THEN left_bit ELSE right_bit)
        Stopped == accepted /\ motor_mask = 0
    IN /\ motor_mask = 0 \/ (motor_left.running = 0 /\ motor_right.running = 0)
       /\ motor_left' = IF Hit("left") THEN Started
                        ELSE IF Stopped THEN MotorOff ELSE motor_left
       /\ MOTOR_LEFT' = IF Hit("left") THEN 1
                        ELSE IF Stopped THEN 0 ELSE MOTOR_LEFT
       /\ motor_right' = IF Hit("right") THEN Started
                         ELSE IF Stopped THEN MotorOff ELSE motor_right
       /\ MOTOR_RIGHT' = IF Hit("right") THEN 1
                         ELSE IF Stopped THEN 0 ELSE MOTOR_RIGHT
       /\ observed' =
            [observed EXCEPT
               !.started = [m \in DOMAIN @ |->
                              IF Hit(m) THEN TRUE
                              ELSE IF Stopped THEN FALSE ELSE @[m]],
               !.runtime = [m \in DOMAIN @ |-> IF Hit(m) THEN runtime ELSE @[m]],
               !.elapsed = [m \in DOMAIN @ |->
                              IF Hit(m) \/ Stopped THEN 0 ELSE @[m]]]
       /\ UNCHANGED <<t_10ms, tcnt_10, tcnt_100, t1_sync, t10_sync, gewichte,
                      TOP_SENSOR, top_position_flag, last_top_state, can_tx,
                      engine, apart>>

\* the status messages are due once a second
StatusDueEverySecond == tcnt_100 = 0

\* Every10ms: "Status-Nachrichten (alle 100ms)"
StatusDue == tcnt_10 = 0

\* main: the loop finds t10_sync set, runs Every10ms and clears t10_sync
Every10ms ==
    /\ t10_sync = 1
    /\ LET dms == SendEusemaDmsData(gewichte)
           l == UpdateMotorTimers(motor_left, MOTOR_LEFT)
           r == UpdateMotorTimers(motor_right, MOTOR_RIGHT)
           current_state == TOP_SENSOR
           edge == current_state # 0 /\ last_top_state = 0
           top == IF edge THEN <<SendTopPositionMessage(t_10ms)>> ELSE << >>
           flag == IF edge THEN 1 ELSE top_position_flag
           status == IF StatusDue
                     THEN <<SendMotorStatus(l.motor, r.motor),
                            SendSystemStatus(l.motor, r.motor, flag, gewichte)>>
                     ELSE << >>
           bus == dms \o top \o status
           sent == \E i \in 1..Len(bus) : bus[i].id = EUS(EUSEMA_MOTOR_STATUS)
       IN /\ can_tx' = bus
          /\ motor_left' = l.motor
          /\ MOTOR_LEFT' = l.pin
          /\ motor_right' = r.motor
          /\ MOTOR_RIGHT' = r.pin
          /\ last_top_state' = current_state
          /\ top_position_flag' = IF StatusDue THEN 0 ELSE flag
          /\ observed' =
               [observed EXCEPT
                  !.elapsed = [m \in DOMAIN @ |->
                                 IF observed.started[m]
                                 THEN Least(@[m] + 1, observed.runtime[m] * 100 + 1)
                                 ELSE 0],
                  !.since_status = IF sent THEN 0 ELSE Least(@ + 1, 100),
                  !.last_gap = IF sent THEN observed.since_status + 1 ELSE @,
                  !.status_sends = IF sent THEN Least(@ + 1, 2) ELSE @,
                  !.sample = gewichte,
                  !.top_packets = IF edge THEN @ + 1 ELSE @]
    /\ t10_sync' = 0
    /\ UNCHANGED <<t_10ms, tcnt_10, tcnt_100, t1_sync, gewichte, TOP_SENSOR,
                   engine, apart>>

\* the scaled values Every_ms leaves in gewichte
DmsSamples ==
    { <<1, 2, 3, 4, 5, 6, 7, 8>>,
      <<300, 301, 302, 303, 600, 601, 602, 603>> }

\* main: the loop finds t1_sync set, runs Every_ms, which reads the eight
\* DMS and scales them into gewichte, and clears t1_sync
Every_ms ==
    /\ t1_sync = 1
    /\ gewichte' \in { [i \in 1..8 |-> g[i]] : g \in DmsSamples }
    /\ t1_sync' = 0
    /\ UNCHANGED <<motor_left, motor_right, MOTOR_LEFT, MOTOR_RIGHT, t_10ms,
                   tcnt_10, tcnt_100, t10_sync, TOP_SENSOR, top_position_flag,
                   last_top_state, can_tx, observed, engine, apart>>

\* the plate passes the top-position sensor: the input pin changes
SensorChange ==
    /\ observed.changes < MaxSensorChanges
    /\ TOP_SENSOR' = 1 - TOP_SENSOR
    /\ observed' = [observed EXCEPT
                      !.changes = @ + 1,
                      !.edges = IF TOP_SENSOR = 0 THEN @ + 1 ELSE @]
    /\ UNCHANGED <<motor_left, motor_right, MOTOR_LEFT, MOTOR_RIGHT, t_10ms,
                   tcnt_10, tcnt_100, t1_sync, t10_sync, gewichte,
                   top_position_flag, last_top_state, can_tx, engine, apart>>

\* main enters its endless loop: the Timer0 interrupt has run since
\* InitTimer0, through Wait(5000) and CalcOffsetAD
InitMainLoop ==
    /\ NoEvaluation
    /\ NothingElse
    /\ motor_left = MotorOff
    /\ motor_right = MotorOff
    /\ MOTOR_LEFT = 0
    /\ MOTOR_RIGHT = 0
    /\ t_10ms \in 0..9
    /\ tcnt_10 = t_10ms % 10
    /\ tcnt_100 = t_10ms % 100
    /\ t1_sync = 1
    /\ t10_sync = 1
    /\ gewichte = [i \in 1..8 |-> 0]
    /\ TOP_SENSOR = 0
    /\ top_position_flag = 0
    /\ last_top_state = 0
    /\ can_tx = << >>
    /\ observed = NothingObserved

\* the cabinet receives motor commands
NextMotor ==
    \/ Timer0Interrupt
    \/ Every10ms
    \/ \E dlc \in 1..2, motor_mask \in 0..3, runtime \in 0..MaxRunTime :
           ProcessMotorCommand(dlc, motor_mask, runtime)

SpecMotor == InitMainLoop /\ [][NextMotor]_vars

\* the cabinet measures while the plate moves
NextPlate ==
    \/ Timer0Interrupt
    \/ Timer2Interrupt
    \/ Every_ms
    \/ Every10ms
    \/ SensorChange

SpecPlate == InitMainLoop /\ [][NextPlate]_vars

(* ----------------------- DataProcessor thread -------------------------- *)
\* the items the presenter puts on data_queue in a run
MaxItems == 2

\* queue.Queue(maxsize=100) of the results
result_queue_maxsize == 100

\* everything of the engine but the result queue
calculator == <<c_extension, numpy_empty_is_error, _cache, record, pc, peaks,
                ci, phase_shifts, frequencies, analysed, result, raised, axle,
                seq, aux, wheel_result>>

\* the items of data_queue: their 'type' and whether processing them raises
\* an exception (a key is missing, or calculate raises)
Items ==
    { [type |-> "measurement", raises |-> FALSE],
      [type |-> "phase_calculation", raises |-> FALSE],
      [type |-> "phase_calculation", raises |-> TRUE],
      [type |-> "other", raises |-> FALSE] }

\* the worker holds no item
NoItem == [type |-> "none", raises |-> FALSE]

\* a result the presenter has not yet taken from the result queue
WaitingResult == [type |-> "measurement_processed", wheel |-> "none", result |-> NoResult]

\* n results waiting in the result queue
Waiting(n) == [k \in 1..n |-> WaitingResult]

\* main has created the queues and started the DataProcessor; the
\* application runs. The result queue holds what the presenter has left
InitProcessor ==
    /\ c_extension = TRUE
    /\ numpy_empty_is_error = FALSE
    /\ _cache = << >>
    /\ record = [w \in Wheels |-> NoRecord]
    /\ pc = [w \in Wheels |-> "absent"]
    /\ peaks = [w \in Wheels |-> << >>]
    /\ ci = [w \in Wheels |-> 0]
    /\ phase_shifts = [w \in Wheels |-> << >>]
    /\ frequencies = [w \in Wheels |-> << >>]
    /\ analysed = [w \in Wheels |-> << >>]
    /\ result = [w \in Wheels |-> NoResult]
    /\ raised = [w \in Wheels |-> "none"]
    /\ axle = NoAxle
    /\ wheel_result = [w \in Wheels |-> NoWheelResult]
    /\ seq = NoSequencer
    /\ aux = [w \in Wheels |-> PlainAux]
    /\ InitVars
    /\ update_pc = "idle"
    /\ scales = "idle"
    /\ ring = "idle"
    /\ updater = "idle"
    /\ interpolation = "idle"
    /\ result_queue \in { Waiting(n) : n \in {0, result_queue_maxsize - 1,
                                              result_queue_maxsize} }
    /\ processor = [running |-> TRUE, data_queue |-> << >>, worker |-> "while",
                    data |-> NoItem, main |-> "exec", produced |-> 0,
                    exceptions |-> 0, processed |-> 0]

\* what a step of the DataProcessor and of its users leaves alone
ProcessorOnly ==
    UNCHANGED <<calculator, firmware, update_pc, scales, ring, updater,
                interpolation>>

\* the presenter puts an item on data_queue while the application runs
PresenterPut(item) ==
    /\ processor.main = "exec"
    /\ processor.produced < MaxItems
    /\ processor' = [processor EXCEPT !.data_queue = Append(@, item),
                                      !.produced = @ + 1]
    /\ UNCHANGED result_queue
    /\ ProcessorOnly

\* the presenter takes a result from result_queue while the application runs
PresenterGet ==
    /\ processor.main = "exec"
    /\ result_queue # << >>
    /\ result_queue' = SubSeq(result_queue, 2, Len(result_queue))
    /\ UNCHANGED processor
    /\ ProcessorOnly

\* run: while self.running
WorkerWhile ==
    /\ processor.worker = "while"
    /\ processor' = [processor EXCEPT
                       !.worker = IF processor.running THEN "get" ELSE "exited"]
    /\ UNCHANGED result_queue
    /\ ProcessorOnly

\* run: data_queue.get(timeout=0.1) returns an item, or raises queue.Empty
\* after the timeout and the loop continues
WorkerGet ==
    /\ processor.worker = "get"
    /\ processor' =
         IF processor.data_queue # << >>
         THEN [processor EXCEPT
                 !.data = Head(processor.data_queue),
                 !.data_queue = SubSeq(@, 2, Len(@)),
                 !.worker = "process"]
         ELSE [processor EXCEPT !.worker = "while"]
    /\ UNCHANGED result_queue
    /\ ProcessorOnly

\* an exception of _process_data leaving run: the thread ends
WorkerRaiseEndsThread ==
    [processor EXCEPT !.worker = "exited", !.data = NoItem,
                      !.exceptions = 1]

\* run: except Exception as e: print(...), and the loop continues
WorkerRaise ==
    [processor EXCEPT !.worker = "while", !.data = NoItem, !.exceptions = 1]

\* run: _process_data(data); its result, if any, is to be put on result_queue
WorkerProcess ==
    /\ processor.worker = "process"
    /\ processor' =
         IF processor.data.raises
         THEN WorkerRaise
         ELSE IF processor.data.type \in {"measurement", "phase_calculation"}
         THEN [processor EXCEPT !.worker = "put",
                                !.processed = Least(@ + processor.exceptions, 1)]
         ELSE [processor EXCEPT !.worker = "while", !.data = NoItem,
                                !.processed = Least(@ + processor.exceptions, 1)]
    /\ UNCHANGED result_queue
    /\ ProcessorOnly

\* run: self.result_queue.put(result) without a timeout: put waits while the
\* queue is full
WorkerPut ==
    /\ processor.worker = "put"
    /\ Len(result_queue) < result_queue_maxsize
    /\ result_queue' =
         Append(result_queue,
                [type |-> IF processor.data.type = "measurement"
                          THEN "measurement_processed"
                          ELSE "phase_calculation_result",
                 wheel |-> "none", result |-> NoResult])
    /\ processor' = [processor EXCEPT !.worker = "while", !.data = NoItem]
    /\ ProcessorOnly

\* main: app.exec() has returned; finally: processor.stop()
MainStop ==
    /\ processor.main = "exec"
    /\ processor' = [processor EXCEPT !.running = FALSE, !.main = "join"]
    /\ UNCHANGED result_queue
    /\ ProcessorOnly

\* main: processor.join() returns when the thread has ended
MainJoin ==
    /\ processor.main = "join"
    /\ processor.worker = "exited"
    /\ processor' = [processor EXCEPT !.main = "joined"]
    /\ UNCHANGED result_queue
    /\ ProcessorOnly

\* a step of the DataProcessor thread
Worker == WorkerWhile \/ WorkerGet \/ WorkerProcess \/ WorkerPut

NextProcessor ==
    \/ \E item \in Items : PresenterPut(item)
    \/ PresenterGet
    \/ WorkerWhile
    \/ WorkerGet
    \/ WorkerProcess
    \/ WorkerPut
    \/ MainStop
    \/ MainJoin

SpecProcessor == InitProcessor /\ [][NextProcessor]_vars

\* the thread is scheduled again and again, main gets to its join, and the
\* presenter keeps taking results as long as the application runs
SpecProcessorLive ==
    /\ SpecProcessor
    /\ WF_vars(Worker)
    /\ WF_vars(MainJoin)
    /\ WF_vars(PresenterGet)

(* ----------------------- scale table of the cabinet ------------------- *)
\* the scale messages the cabinet receives in a run
MaxScaleMessages == 2

\* an entry of the scale table that was never set
NoScale == [adv |-> 0, weight |-> 0]

\* the bytes a scale message can carry: the length register, the sensor
\* number, the scale index, the AD value and the weight
ScaleLengths == {5, 6, 64 + 6}
SensorNumbers == {0, 7, 8, 64, 255}
ScaleIndices == {0, 3, 4, 255}
ScaleValues == {512, 600}
ScaleWeights == {1000}

\* no scale message has been received
NoScaleMessage ==
    [dlc |-> 0, geber_nummer |-> 0, scale_index |-> 0, ad_wert |-> 0,
     gew_wert |-> 0]

\* the firmware after ReadScaleFromEEProm: the table is the copy of the
\* EEPROM, interrupts are on and main is about to call WriteScaleToEEPROM
ScalesAtStart ==
    [scale_changed |-> 0,
     scaleAd2weight |-> [k \in 0..31 |-> NoScale],
     eeprom |-> [k \in 0..31 |-> NoScale],
     GIEH |-> 1, main |-> "if", outside |-> FALSE, received |-> 0,
     message |-> NoScaleMessage, kept |-> TRUE]

\* the table after a write of entry k: a write behind the table hits other
\* memory
WriteEntry(sc, k, ad_wert, gew_wert) ==
    IF k \in 0..31
    THEN [sc EXCEPT !.scaleAd2weight[k] = [adv |-> ad_wert, weight |-> gew_wert],
                    !.scale_changed = 1]
    ELSE [sc EXCEPT !.outside = TRUE, !.scale_changed = 1]

\* the index check of ScalesFromCAN_POINTER: one 8-bit linear index
ScalesFromCAN_POINTER(sc, dlc, geber_nummer, scale_index, ad_wert, gew_wert) ==
    IF dlc % 16 >= 6 /\ (geber_nummer * 4 + scale_index) % 256 < 8 * 4
    THEN WriteEntry(sc, geber_nummer * 4 + scale_index, ad_wert, gew_wert)
    ELSE sc

\* ScalesFromCAN on the scales sc: the message in RXB1 has the length
\* register dlc and the bytes geber_nummer, scale_index and the two values
ScalesFromCAN(sc, dlc, geber_nummer, scale_index, ad_wert, gew_wert) ==
    IF dlc % 16 >= 6 /\ geber_nummer < 8 /\ scale_index < 4
    THEN WriteEntry(sc, geber_nummer * 4 + scale_index, ad_wert, gew_wert)
    ELSE sc

\* what a step of the scale handling leaves alone
ScalesOnly ==
    UNCHANGED <<engine, firmware, update_pc, processor, ring, updater,
                interpolation>>

\* lowPriorityIntHandler, RXB1 with sub-ID EUSEMA_SCALE_CMD, taken while
\* interrupts are enabled
ScaleInterrupt(dlc, geber_nummer, scale_index, ad_wert, gew_wert) ==
    /\ scales.GIEH = 1
    /\ scales.received < MaxScaleMessages
    /\ LET after == ScalesFromCAN(scales, dlc, geber_nummer, scale_index,
                                  ad_wert, gew_wert)
       IN scales' =
            [after EXCEPT
               !.received = @ + 1,
               !.message = [dlc |-> dlc, geber_nummer |-> geber_nummer,
                            scale_index |-> scale_index, ad_wert |-> ad_wert,
                            gew_wert |-> gew_wert],
               !.kept = /\ after.scaleAd2weight = scales.scaleAd2weight
                        /\ after.scale_changed = scales.scale_changed
                        /\ after.outside = scales.outside]
    /\ ScalesOnly

\* WriteScaleToEEPROM: if (scale_changed); main comes back here with every
\* pass of its loop
WriteScaleIf ==
    /\ scales.main = "if"
    /\ scales.scale_changed # 0
    /\ scales' = [scales EXCEPT !.main = "disable"]
    /\ ScalesOnly

\* WriteScaleToEEPROM: INTCONbits.GIEH = 0
WriteScaleDisable ==
    /\ scales.main = "disable"
    /\ scales' = [scales EXCEPT !.GIEH = 0, !.main = "write"]
    /\ ScalesOnly

\* WriteScaleToEEPROM: the loops that write the whole table
WriteScaleLoops ==
    /\ scales.main = "write"
    /\ scales' = [scales EXCEPT !.eeprom = scales.scaleAd2weight, !.main = "enable"]
    /\ ScalesOnly

\* WriteScaleToEEPROM: INTCONbits.GIEH = 1
WriteScaleEnable ==
    /\ scales.main = "enable"
    /\ scales' = [scales EXCEPT !.GIEH = 1, !.main = "clear"]
    /\ ScalesOnly

\* WriteScaleToEEPROM: scale_changed = 0
WriteScaleClear ==
    /\ scales.main = "clear"
    /\ scales' = [scales EXCEPT !.scale_changed = 0, !.main = "if"]
    /\ ScalesOnly

InitScales ==
    /\ NoEvaluation
    /\ InitVars
    /\ update_pc = "idle"
    /\ scales = ScalesAtStart
    /\ processor = "idle"
    /\ ring = "idle"
    /\ updater = "idle"
    /\ interpolation = "idle"

NextScales ==
    \/ \E dlc \in ScaleLengths, geber_nummer \in SensorNumbers,
          scale_index \in ScaleIndices, ad_wert \in ScaleValues,
          gew_wert \in ScaleWeights :
           ScaleInterrupt(dlc, geber_nummer, scale_index, ad_wert, gew_wert)
    \/ WriteScaleIf
    \/ WriteScaleDisable
    \/ WriteScaleLoops
    \/ WriteScaleEnable
    \/ WriteScaleClear

SpecScales == InitScales /\ [][NextScales]_vars

(* --------------- motor commands against the running timers ------------- *)
\* calls of UpdateMotorTimers that are followed, and motor commands taken
MaxCalls == 3
MaxMotorCommands == 2
\* the main loop is entered at most so many runs of Every10ms before the
\* run time of a motor is over
MaxRemaining == 2

Motors == {"left", "right"}

\* a motor started earlier, r runs of Every10ms before its run time is over
MotorAt(r) == IF r = 0 THEN MotorOff ELSE [running |-> 1, remaining_time |-> r]

\* the main loop stands outside UpdateMotorTimers; no command was taken yet
TimersIdle ==
    [at |-> "idle", motor |-> "left", calls |-> 0, commands |-> 0,
     due |-> [m \in Motors |-> FALSE],
     runtime |-> [m \in Motors |-> 0],
     since |-> [m \in Motors |-> 0]]

\* what a step of the motor handling leaves alone
TimersOnly ==
    UNCHANGED <<t_10ms, tcnt_10, tcnt_100, t1_sync, t10_sync, gewichte,
                TOP_SENSOR, top_position_flag, last_top_state, can_tx,
                observed, engine, scales, processor, ring, updater,
                interpolation>>

\* the MOTOR_CONTROL and the output pin of motor m become mc and pin
SetMotor(m, mc, pin) ==
    IF m = "left"
    THEN /\ motor_left' = mc
         /\ MOTOR_LEFT' = pin
         /\ UNCHANGED <<motor_right, MOTOR_RIGHT>>
    ELSE /\ motor_right' = mc
         /\ MOTOR_RIGHT' = pin
         /\ UNCHANGED <<motor_left, MOTOR_LEFT>>

\* UpdateMotorTimers goes on behind the block of motor m
BehindMotor(m) ==
    IF m = "left"
    THEN [update_pc EXCEPT !.at = "if", !.motor = "right"]
    ELSE [update_pc EXCEPT !.at = "idle", !.motor = "left", !.calls = @ + 1]

\* Every10ms calls UpdateMotorTimers
TimersCall ==
    /\ update_pc.at = "idle"
    /\ update_pc.calls < MaxCalls
    /\ update_pc' =
         [update_pc EXCEPT !.at = "if",
                           !.since = [m \in Motors |-> Least(@[m] + 1, 65535)]]
    /\ UNCHANGED <<motor_left, motor_right, MOTOR_LEFT, MOTOR_RIGHT>>
    /\ TimersOnly

\* if (motor.remaining_time > 0)
TimerIf(m) ==
    /\ update_pc.at = "if"
    /\ update_pc.motor = m
    /\ update_pc' = IF (IF m = "left" THEN motor_left
                                      ELSE motor_right).remaining_time > 0
                    THEN [update_pc EXCEPT !.at = "decrement"]
                    ELSE BehindMotor(m)
    /\ UNCHANGED <<motor_left, motor_right, MOTOR_LEFT, MOTOR_RIGHT>>
    /\ TimersOnly

\* motor.remaining_time--
TimerDecrement(m) ==
    /\ update_pc.at = "decrement"
    /\ update_pc.motor = m
    /\ LET mc == IF m = "left" THEN motor_left ELSE motor_right
       IN SetMotor(m, [mc EXCEPT !.remaining_time = (@ + 65535) % 65536],
                   IF m = "left" THEN MOTOR_LEFT ELSE MOTOR_RIGHT)
    /\ update_pc' = [update_pc EXCEPT !.at = "zero"]
    /\ TimersOnly

\* if (motor.remaining_time == 0)
TimerZero(m) ==
    /\ update_pc.at = "zero"
    /\ update_pc.motor = m
    /\ update_pc' = IF (IF m = "left" THEN motor_left
                                      ELSE motor_right).remaining_time = 0
                    THEN [update_pc EXCEPT !.at = "pin"]
                    ELSE BehindMotor(m)
    /\ UNCHANGED <<motor_left, motor_right, MOTOR_LEFT, MOTOR_RIGHT>>
    /\ TimersOnly

\* MOTOR_LEFT = 0 or MOTOR_RIGHT = 0
TimerPinOff(m) ==
    /\ update_pc.at = "pin"
    /\ update_pc.motor = m
    /\ SetMotor(m, IF m = "left" THEN motor_left ELSE motor_right, 0)
    /\ update_pc' = [update_pc EXCEPT !.at = "running"]
    /\ TimersOnly

\* motor.running = 0
TimerRunningOff(m) ==
    /\ update_pc.at = "running"
    /\ update_pc.motor = m
    /\ LET mc == IF m = "left" THEN motor_left ELSE motor_right
       IN SetMotor(m, [mc EXCEPT !.running = 0],
                   IF m = "left" THEN MOTOR_LEFT ELSE MOTOR_RIGHT)
    /\ update_pc' = BehindMotor(m)
    /\ TimersOnly

\* the block of ProcessMotorCommand for one motor: its mask bit is set
\* (hit), or the whole mask is 0 (stopped), or neither
MotorBlock(mc, pin, hit, stopped, runtime) ==
    IF hit
    THEN [motor |-> [running |-> 1,
                     remaining_time |-> (runtime * 100) % 65536],
          pin |-> 1]
    ELSE IF stopped THEN [motor |-> MotorOff, pin |-> 0]
    ELSE [motor |-> mc, pin |-> pin]

\* lowPriorityIntHandler, RXB1 with sub-ID EUSEMA_MOTOR_CMD, between any two
\* statements of the main loop: ProcessMotorCommand as a whole
MotorInterrupt(dlc, motor_mask, runtime) ==
    LET accepted == dlc % 16 >= 2
        Hit(m) == /\ accepted
                  /\ IF m = "left" THEN motor_mask % 2 = 1
                                   ELSE (motor_mask \div 2) % 2 = 1
        Stopped == accepted /\ motor_mask = 0
        left == MotorBlock(motor_left, MOTOR_LEFT, Hit("left"), Stopped, runtime)
        right == MotorBlock(motor_right, MOTOR_RIGHT, Hit("right"), Stopped,
                            runtime)
    IN /\ update_pc.commands < MaxMotorCommands
       /\ motor_left' = left.motor
       /\ MOTOR_LEFT' = left.pin
       /\ motor_right' = right.motor
       /\ MOTOR_RIGHT' = right.pin
       /\ update_pc' =
            [update_pc EXCEPT
               !.commands = @ + 1,
               !.due = [m \in Motors |->
                          IF Hit(m) THEN runtime > 0
                          ELSE IF Stopped THEN FALSE ELSE @[m]],
               !.runtime = [m \in Motors |-> IF Hit(m) THEN runtime ELSE @[m]],
               !.since = [m \in Motors |-> IF Hit(m) THEN 0 ELSE @[m]]]
       /\ TimersOnly

\* the main loop runs; motors started earlier may be near the end of their
\* run time
InitTimers ==
    /\ NoEvaluation
    /\ scales = "idle"
    /\ processor = "idle"
    /\ ring = "idle"
    /\ updater = "idle"
    /\ interpolation = "idle"
    /\ update_pc = TimersIdle
    /\ \E l \in 0..MaxRemaining, r \in 0..MaxRemaining :
           /\ motor_left = MotorAt(l)
           /\ MOTOR_LEFT = MotorAt(l).running
           /\ motor_right = MotorAt(r)
           /\ MOTOR_RIGHT = MotorAt(r).running
    /\ t_10ms = 0
    /\ tcnt_10 = 0
    /\ tcnt_100 = 0
    /\ t1_sync = 0
    /\ t10_sync = 0
    /\ gewichte = [i \in 1..8 |-> 0]
    /\ TOP_SENSOR = 0
    /\ top_position_flag = 0
    /\ last_top_state = 0
    /\ can_tx = << >>
    /\ observed = NothingObserved

NextTimers ==
    \/ TimersCall
    \/ \E m \in Motors : TimerIf(m)
    \/ \E m \in Motors : TimerDecrement(m)
    \/ \E m \in Motors : TimerZero(m)
    \/ \E m \in Motors : TimerPinOff(m)
    \/ \E m \in Motors : TimerRunningOff(m)
    \/ \E dlc \in 1..2, motor_mask \in 0..3, runtime \in 0..MaxRunTime :
           MotorInterrupt(dlc, motor_mask, runtime)

SpecTimers == InitTimers /\ [][NextTimers]_vars

(* ----------------------------- BatchedUpdater -------------------------- *)
\* calls of add_update
MaxUpdates == 3

\* BatchedUpdater.__init__; the updates are numbered as they are added.
\* _combine_updates is called by _flush_updates and defined nowhere in the
\* class: it is "missing" as the class stands, "defined" where a subclass
\* supplies it and hands the updates of the list on as one batch
NewUpdater(combine) ==
    [pending_updates |-> << >>, timer |-> "None", adder |-> "idle",
     flush |-> "none", combined_data |-> << >>, delivered |-> << >>,
     added |-> 0, _combine_updates |-> combine]

\* what a step of the BatchedUpdater leaves alone
UpdaterOnly ==
    UNCHANGED <<engine, firmware, update_pc, scales, processor, ring,
                interpolation>>

\* add_update: self.pending_updates.append(data)
AddAppend ==
    /\ updater.adder = "idle"
    /\ updater.added < MaxUpdates
    /\ updater' = [updater EXCEPT
                     !.pending_updates = Append(@, updater.added + 1),
                     !.added = @ + 1,
                     !.adder = "if"]
    /\ UpdaterOnly

\* add_update: if self.timer is None
AddIf ==
    /\ updater.adder = "if"
    /\ updater' = [updater EXCEPT
                     !.adder = IF updater.timer = "None" THEN "start" ELSE "idle"]
    /\ UpdaterOnly

\* add_update: self.timer = threading.Timer(...); self.timer.start()
AddStart ==
    /\ updater.adder = "start"
    /\ updater' = [updater EXCEPT !.timer = "started", !.adder = "idle"]
    /\ UpdaterOnly

\* batch_interval has passed: the timer thread calls _flush_updates
TimerFires ==
    /\ updater.timer = "started"
    /\ updater.flush = "none"
    /\ updater' = [updater EXCEPT !.timer = "running", !.flush = "if"]
    /\ UpdaterOnly

\* _flush_updates: if self.pending_updates
FlushIf ==
    /\ updater.flush = "if"
    /\ updater' = [updater EXCEPT
                     !.flush = IF updater.pending_updates # << >>
                               THEN "combine" ELSE "timer"]
    /\ UpdaterOnly

\* _flush_updates: combined_data = self._combine_updates(self.pending_updates);
\* without the method the call raises AttributeError and the timer thread ends
FlushCombine ==
    /\ updater.flush = "combine"
    /\ updater' = IF updater._combine_updates = "missing"
                  THEN [updater EXCEPT !.flush = "raised"]
                  ELSE [updater EXCEPT !.combined_data = updater.pending_updates,
                                       !.flush = "callback"]
    /\ UpdaterOnly

\* _flush_updates: self.update_callback(combined_data)
FlushCallback ==
    /\ updater.flush = "callback"
    /\ updater' = [updater EXCEPT !.delivered = Append(@, updater.combined_data),
                                  !.flush = "reset"]
    /\ UpdaterOnly

\* _flush_updates: self.pending_updates = []
FlushReset ==
    /\ updater.flush = "reset"
    /\ updater' = [updater EXCEPT !.pending_updates = << >>, !.flush = "timer"]
    /\ UpdaterOnly

\* _flush_updates: self.timer = None
FlushTimerNone ==
    /\ updater.flush = "timer"
    /\ updater' = [updater EXCEPT !.timer = "None", !.flush = "none"]
    /\ UpdaterOnly

InitUpdater ==
    /\ NoEvaluation
    /\ InitVars
    /\ update_pc = "idle"
    /\ scales = "idle"
    /\ processor = "idle"
    /\ ring = "idle"
    /\ interpolation = "idle"
    /\ \E combine \in {"missing", "defined"} : updater = NewUpdater(combine)

NextUpdater ==
    \/ AddAppend
    \/ AddIf
    \/ AddStart
    \/ TimerFires
    \/ FlushIf
    \/ FlushCombine
    \/ FlushCallback
    \/ FlushReset
    \/ FlushTimerNone

SpecUpdater == InitUpdater /\ [][NextUpdater]_vars

(* ------------------------------- RingBuffer ---------------------------- *)
\* the capacity of the buffer, and the calls of append, clear and get_data
capacity == 2
MaxAppends == 3
MaxClears == 1
MaxGets == 2

\* the five arrays of the buffer, in the order append writes them and
\* get_data reads them
Channels ==
    <<"_platform_buffer", "_force_buffer", "_time_buffer", "_freq_buffer",
      "_phase_buffer">>

\* the arguments of the n-th call of append: each channel has a value of its
\* own, and the times grow from call to call
Point(n) ==
    [_platform_buffer |-> 10 + n, _force_buffer |-> 20 + n,
     _time_buffer |-> 30 + n, _freq_buffer |-> 40 + n,
     _phase_buffer |-> 50 + n]

\* np.zeros(capacity)
np_zeros == [k \in 0..(capacity - 1) |-> 0]

NoData ==
    [returned |-> FALSE, empty |-> TRUE, size |-> 0,
     _platform_buffer |-> << >>, _force_buffer |-> << >>,
     _time_buffer |-> << >>, _freq_buffer |-> << >>, _phase_buffer |-> << >>]

\* RingBuffer.__init__, with one thread that appends, one that clears and
\* one that reads
NewRingBuffer ==
    [buffers |-> [c \in {Channels[i] : i \in 1..5} |-> np_zeros],
     _write_idx |-> 0, _size |-> 0, _lock |-> "free",
     writer |-> [at |-> "idle", idx |-> 0, n |-> 0, channel |-> 1],
     cleaner |-> [at |-> "idle"],
     reader |-> [at |-> "idle", max_points |-> 0, n_points |-> 0,
                 sort_idx |-> << >>, channel |-> 1, result |-> NoData,
                 seen |-> << >>],
     appended |-> 0, cleared |-> 0, got |-> 0, since |-> << >>]

\* what a step of the RingBuffer leaves alone
RingOnly ==
    UNCHANGED <<engine, firmware, update_pc, scales, processor, updater,
                interpolation>>

\* a buffer without its lock
NoLock(thread) == TRUE

\* with self._lock: an RLock is free or held by the thread itself
CanAcquire(thread) == ring._lock \in {"free", thread}

\* append: the lock is taken, idx = self._write_idx
AppendEnter ==
    /\ ring.writer.at = "idle"
    /\ ring.appended < MaxAppends
    /\ CanAcquire("writer")
    /\ ring' = [ring EXCEPT
                  !._lock = "writer",
                  !.appended = @ + 1,
                  !.writer = [at |-> "write", idx |-> ring._write_idx,
                              n |-> ring.appended + 1, channel |-> 1]]
    /\ RingOnly

\* append: self._platform_buffer[idx] = platform, and so on for each array
AppendWrite ==
    /\ ring.writer.at = "write"
    /\ LET c == Channels[ring.writer.channel]
       IN ring' = [ring EXCEPT
                     !.buffers[c][ring.writer.idx] = Point(ring.writer.n)[c],
                     !.writer.channel = IF @ < 5 THEN @ + 1 ELSE 1,
                     !.writer.at = IF ring.writer.channel < 5 THEN "write"
                                                              ELSE "index"]
    /\ RingOnly

\* append: self._write_idx = (self._write_idx + 1) % self.capacity
AppendIndex ==
    /\ ring.writer.at = "index"
    /\ ring' = [ring EXCEPT !._write_idx = (@ + 1) % capacity,
                            !.writer.at = "size"]
    /\ RingOnly

\* append: self._size = min(self._size + 1, self.capacity); the lock is
\* given back
AppendSize ==
    /\ ring.writer.at = "size"
    /\ ring' = [ring EXCEPT !._size = Least(@ + 1, capacity),
                            !._lock = "free",
                            !.since = Append(@, ring.writer.n),
                            !.writer.at = "idle"]
    /\ RingOnly

\* clear: the lock is taken, self._write_idx = 0
ClearIndex ==
    /\ ring.cleaner.at = "idle"
    /\ ring.cleared < MaxClears
    /\ CanAcquire("cleaner")
    /\ ring' = [ring EXCEPT !._lock = "cleaner", !._write_idx = 0,
                            !.cleared = @ + 1, !.cleaner.at = "size"]
    /\ RingOnly

\* clear: self._size = 0
ClearSize ==
    /\ ring.cleaner.at = "size"
    /\ ring' = [ring EXCEPT !._size = 0, !.cleaner.at = "fill"]
    /\ RingOnly

\* clear: the five arrays are filled with 0; the lock is given back
ClearFill ==
    /\ ring.cleaner.at = "fill"
    /\ ring' = [ring EXCEPT
                  !.buffers = [c \in DOMAIN @ |-> np_zeros],
                  !._lock = "free",
                  !.since = << >>,
                  !.cleaner.at = "idle"]
    /\ RingOnly

\* np.argsort of the first n values of the array t, which are all different
np_argsort(t, n) ==
    [i \in 1..n |->
        CHOOSE k \in 0..(n - 1) :
            Cardinality({j \in 0..(n - 1) : t[j] < t[k]}) = i - 1]

\* the order of a full buffer taken as it lies in the arrays
PlainOrder(start_idx) == [i \in 1..capacity |-> i - 1]

\* np.concatenate([np.arange(start_idx, capacity), np.arange(0, start_idx)])
FullOrder(start_idx) == [i \in 1..capacity |-> (start_idx + i - 1) % capacity]

\* np.linspace(0, n_points - 1, max_points, dtype=int)
np_linspace(n_points, max_points) ==
    [i \in 1..max_points |->
        IF max_points = 1 THEN 0
        ELSE ((i - 1) * (n_points - 1)) \div (max_points - 1)]

\* get_data(max_points), 0 for None: the lock is taken
GetEnter(max_points) ==
    /\ ring.reader.at = "idle"
    /\ ring.got < MaxGets
    /\ CanAcquire("reader")
    /\ ring' = [ring EXCEPT
                  !._lock = "reader",
                  !.got = @ + 1,
                  !.reader = [at |-> "size", max_points |-> max_points,
                              n_points |-> 0, sort_idx |-> << >>,
                              channel |-> 1, result |-> NoData,
                              seen |-> ring.since]]
    /\ RingOnly

\* get_data: if self._size == 0: return {}; n_points = self._size
GetSize ==
    /\ ring.reader.at = "size"
    /\ ring' = IF ring._size = 0
               THEN [ring EXCEPT !.reader.result.returned = TRUE,
                                 !._lock = "free",
                                 !.reader.at = "idle"]
               ELSE [ring EXCEPT !.reader.n_points = ring._size,
                                 !.reader.at = "sort"]
    /\ RingOnly

\* get_data: indices, sort_idx and sorted_indices
GetSort ==
    /\ ring.reader.at = "sort"
    /\ LET sort_idx == IF ring._size < capacity
                       THEN np_argsort(ring.buffers["_time_buffer"], ring._size)
                       ELSE FullOrder(ring._write_idx)
           max_points == ring.reader.max_points
           decimate == max_points # 0 /\ max_points < ring.reader.n_points
           indices == np_linspace(ring.reader.n_points, max_points)
       IN ring' = [ring EXCEPT
                     !.reader.sort_idx =
                         IF decimate
                         THEN [i \in 1..max_points |-> sort_idx[indices[i] + 1]]
                         ELSE sort_idx,
                     !.reader.at = "read"]
    /\ RingOnly

\* get_data: one array of the result, a copy of the chosen places
GetRead ==
    /\ ring.reader.at = "read"
    /\ LET c == Channels[ring.reader.channel]
           idx == ring.reader.sort_idx
       IN ring' = [ring EXCEPT
                     !.reader.result[c] =
                         [i \in 1..Len(idx) |-> ring.buffers[c][idx[i]]],
                     !.reader.channel = IF @ < 5 THEN @ + 1 ELSE 1,
                     !.reader.at = IF ring.reader.channel < 5 THEN "read"
                                                              ELSE "return"]
    /\ RingOnly

\* get_data: 'size', and the return; the lock is given back
GetReturn ==
    /\ ring.reader.at = "return"
    /\ LET max_points == ring.reader.max_points
           decimate == max_points # 0 /\ max_points < ring.reader.n_points
       IN ring' = [ring EXCEPT
                     !.reader.result.size =
                         IF decimate THEN Len(ring.reader.sort_idx)
                                     ELSE ring._size,
                     !.reader.result.empty = FALSE,
                     !.reader.result.returned = TRUE,
                     !._lock = "free",
                     !.reader.at = "idle"]
    /\ RingOnly

InitRing ==
    /\ NoEvaluation
    /\ InitVars
    /\ update_pc = "idle"
    /\ scales = "idle"
    /\ processor = "idle"
    /\ updater = "idle"
    /\ interpolation = "idle"
    /\ ring = NewRingBuffer

NextRing ==
    \/ AppendEnter
    \/ AppendWrite
    \/ AppendIndex
    \/ AppendSize
    \/ ClearIndex
    \/ ClearSize
    \/ ClearFill
    \/ \E max_points \in 0..2 : GetEnter(max_points)
    \/ GetSize
    \/ GetSort
    \/ GetRead
    \/ GetReturn

SpecRing == InitRing /\ [][NextRing]_vars

(* ------------- the crossing search on samples at the static weight ----- *)
\* force samples of the cycle
CrossingSamples == 4

\* a force sample lies below, at or above the static weight
ForceLevels(sw) == {sw - 10, sw, sw + 10}

\* the value of 0.0 / 0.0 in C and in NumPy
NaN == NoValue

\* the cycle handed to calculate_cycle_phase (start 0, end n) or to
\* _calculate_phase_fast; compiled by Numba the Python code raises
\* ZeroDivisionError on a division by zero, interpreted with NumPy values
\* it goes on with nan
NewInterpolation(force, sw, with_c_extension, numba) ==
    [force |-> force, time |-> [j \in 1..Len(force) |-> 4 * (j - 1)],
     static_weight |-> sw, with_c_extension |-> with_c_extension,
     numba |-> numba, i |-> 1, crossings |-> << >>, denominators |-> << >>,
     raised |-> "none"]

\* what a step of the crossing search leaves alone
InterpolationOnly ==
    UNCHANGED <<engine, firmware, update_pc, scales, processor, ring, updater>>

\* the if and the elif of both loop bodies: a crossing is interpolated
\* between the samples f0 and f1
Interpolates(f0, f1, sw) == (f0 <= sw /\ sw <= f1) \/ (f0 >= sw /\ sw >= f1)

\* calculate_cycle_phase: the loop body for sample i
CLoopBody ==
    LET s == interpolation
        f0 == At(s.force, s.i - 1)
        f1 == At(s.force, s.i)
    IN  /\ s.with_c_extension
        /\ s.i < Len(s.force)
        /\ Len(s.crossings) < MaxCrossings
        /\ interpolation' =
             IF Interpolates(f0, f1, s.static_weight)
             THEN [s EXCEPT
                     !.i = @ + 1,
                     !.denominators = Append(@, f1 - f0),
                     !.crossings =
                         Append(@, IF f1 - f0 = 0 THEN NaN
                                   ELSE c_crossing_at(s.force, s.time, s.i,
                                                      s.static_weight)[1].t)]
             ELSE [s EXCEPT !.i = @ + 1]
        /\ InterpolationOnly

\* _calculate_phase_fast: the loop body for sample i
PyLoopBody ==
    LET s == interpolation
        f0 == At(s.force, s.i - 1)
        f1 == At(s.force, s.i)
    IN  /\ ~s.with_c_extension
        /\ s.raised = "none"
        /\ s.i < Len(s.force)
        /\ interpolation' =
             IF Interpolates(f0, f1, s.static_weight)
             THEN IF f1 - f0 = 0 /\ s.numba
                  THEN [s EXCEPT !.denominators = Append(@, f1 - f0),
                                 !.raised = "ZeroDivisionError"]
                  ELSE [s EXCEPT
                          !.i = @ + 1,
                          !.denominators = Append(@, f1 - f0),
                          !.crossings =
                              Append(@, IF f1 - f0 = 0 THEN NaN
                                        ELSE py_crossing_at(s.force, s.time, s.i,
                                                            s.static_weight)[1].t)]
             ELSE [s EXCEPT !.i = @ + 1]
        /\ InterpolationOnly

InitInterpolation ==
    /\ NoEvaluation
    /\ InitVars
    /\ update_pc = "idle"
    /\ scales = "idle"
    /\ processor = "idle"
    /\ ring = "idle"
    /\ updater = "idle"
    /\ \E sw \in StaticWeights :
         \E force \in [1..CrossingSamples -> ForceLevels(sw)],
            with_c_extension \in BOOLEAN, numba \in BOOLEAN :
             /\ with_c_extension => ~numba
             /\ interpolation = NewInterpolation(force, sw, with_c_extension, numba)

NextInterpolation ==
    \/ CLoopBody
    \/ PyLoopBody

SpecInterpolation == InitInterpolation /\ [][NextInterpolation]_vars

(* ------------------------------ properties ---------------------------- *)
\* the evaluation of wheel w has ended, by a return or by an exception
Ended(w) == pc[w] \in {"returned", "raised", "done"}

\* the peak search of wheel w has run
PeaksSearched(w) ==
    /\ pc[w] \notin {"absent", "queued", "c_check", "c_peaks", "py_peaks"}
    /\ raised[w] # "ValueError: Arrays must have same length"

\* the three arrays of the record of wheel w have the same length
SameShape(w) ==
    /\ Len(record[w].tire_force) = Len(record[w].platform_position)
    /\ Len(record[w].time) = Len(record[w].platform_position)

\* the analysed cycles of wheel w that lie in the band and have two crossings
ValidCycles(w) ==
    { k \in 1..Len(analysed[w]) :
        analysed[w][k].in_band /\ Len(analysed[w][k].crossings) >= 2 }

InRange(p) == RLe(RInt(0), p) /\ RLe(p, RInt(180))

\* C1: a cycle with fewer than two static-weight crossings is never put on
\* the per-cycle phase list and its value never becomes min_phase_shift
C1_ShortCycleExcluded ==
    \A w \in Wheels :
        /\ \A k \in 1..Len(analysed[w]) :
              Len(analysed[w][k].crossings) < 2 => ~analysed[w][k].appended
        /\ (pc[w] \in {"returned", "done"} /\ result[w].valid)
              => \E k \in ValidCycles(w) :
                    analysed[w][k].phase = result[w].min_phase_shift

\* the sample at which platform_position is largest inside [start, end]
PlatformPeakIndex(w, start, end) ==
    CHOOSE i \in start..end :
        /\ \A j \in start..end :
              At(record[w].platform_position, j) <= At(record[w].platform_position, i)
        /\ \A j \in start..(i - 1) :
              At(record[w].platform_position, j) < At(record[w].platform_position, i)

\* C2: the reference time TOPp of every cycle whose phase is computed is the
\* time of the sample with the largest platform position in the cycle
C2_TopIsPlatformPeak ==
    \A w \in Wheels : \A k \in 1..Len(analysed[w]) :
        LET e == analysed[w][k]
        IN  e.top # NoValue =>
              e.top = RInt(At(record[w].time, PlatformPeakIndex(w, e.start, e.end)))

FirstOf(crossings, dir) ==
    crossings[CHOOSE k \in 1..Len(crossings) :
                 /\ crossings[k].dir = dir
                 /\ \A j \in 1..(k - 1) : crossings[j].dir # dir]

\* C3: Fref of every cycle whose phase is computed is the midpoint of the
\* first down-crossing and the first up-crossing of the cycle
C3_FrefDownUp ==
    \A w \in Wheels : \A k \in 1..Len(analysed[w]) :
        LET e == analysed[w][k]
        IN  e.fref # NoValue =>
              /\ \E j \in 1..Len(e.crossings) : e.crossings[j].dir = "down"
              /\ \E j \in 1..Len(e.crossings) : e.crossings[j].dir = "up"
              /\ e.fref = RDiv(RAdd(FirstOf(e.crossings, "down").t,
                                    FirstOf(e.crossings, "up").t), RInt(2))

\* C4: every phase on the per-cycle phase list and the reported
\* min_phase_shift lie in [0, 180] degrees
C4_PhaseRange ==
    \A w \in Wheels :
        /\ \A k \in 1..Len(phase_shifts[w]) : InRange(phase_shifts[w][k])
        /\ (pc[w] \in {"returned", "done"} /\ result[w].valid)
              => InRange(result[w].min_phase_shift)

\* duration of a cycle in ticks, from its first to its last sample
CycleTicks(w, e) == At(record[w].time, e.end - 1) - At(record[w].time, e.start)

\* 1/duration lies in [min_freq, max_freq], both bounds included
DurationInBand(ticks) ==
    min_freq * ticks <= TicksPerSecond /\ TicksPerSecond <= max_freq * ticks

\* C5: a cycle passes the frequency filter exactly when min_freq <=
\* frequency <= max_freq with both bounds included, only such cycles are put
\* on the lists the minimum is taken from, and every reported frequency lies
\* in the band
C5_BandInclusive ==
    \A w \in Wheels :
        /\ \A k \in 1..Len(analysed[w]) :
              LET e == analysed[w][k]
              IN  /\ e.in_band <=> DurationInBand(CycleTicks(w, e))
                  /\ e.appended => DurationInBand(CycleTicks(w, e))
        /\ \A k \in 1..Len(frequencies[w]) :
              /\ RLe(RInt(min_freq), frequencies[w][k])
              /\ RLe(frequencies[w][k], RInt(max_freq))
        /\ (pc[w] \in {"returned", "done"} /\ result[w].valid) =>
              /\ RLe(RInt(min_freq), result[w].min_phase_freq)
              /\ RLe(result[w].min_phase_freq, RInt(max_freq))

\* a cycle exactly on a bound of the band was kept and reported, a cycle
\* outside the band of the same record was removed
C5_Witness ==
    \E w \in Wheels :
        /\ pc[w] = "done" /\ result[w].valid
        /\ \E k \in 1..Len(analysed[w]) :
              /\ analysed[w][k].frequency \in {RInt(min_freq), RInt(max_freq)}
              /\ analysed[w][k].appended
              /\ analysed[w][k].frequency = result[w].min_phase_freq
        /\ \E k \in 1..Len(analysed[w]) : ~analysed[w][k].in_band

\* C6: when the evaluation has ended and a valid cycle exists, the result
\* is valid, min_phase_shift is the smallest phase of the valid cycles and
\* min_phase_freq is the frequency of a cycle with that phase
C6_MinOfValidCycles ==
    \A w \in Wheels :
        (Ended(w) /\ PeaksSearched(w) /\ ValidCycles(w) # {}) =>
            /\ result[w].valid
            /\ \A k \in ValidCycles(w) :
                  RLe(result[w].min_phase_shift, analysed[w][k].phase)
            /\ \E k \in ValidCycles(w) :
                  /\ analysed[w][k].phase = result[w].min_phase_shift
                  /\ analysed[w][k].frequency = result[w].min_phase_freq

Sibling(w) == CHOOSE v \in Wheels : v # w

TooFewPeaksErrors == {"Not enough peaks found", "Nicht genug Peaks gefunden"}

\* C7: when fewer than 2 platform peaks are found for a wheel, that wheel's
\* evaluation ends without an exception in a result that is not valid and
\* names the missing peaks; once the sibling's result exists the axle
\* evaluation can run, and the axle result holds the sibling's result with
\* the phase imbalance marked not computable and overall_pass false
C7_TooFewPeaksOneWheel ==
    \A w \in Wheels :
        (PeaksSearched(w) /\ Len(peaks[w]) < 2) =>
            /\ pc[w] \in {"returned", "done"}
            /\ raised[w] = "none"
            /\ ~result[w].valid
            /\ result[w].error \in TooFewPeaksErrors
            /\ result[w].min_phase_shift = NoValue
            /\ (pc[w] = "done" /\ Queued(Sibling(w)) # {})
                  => (axle.computed \/ AxleReady)
            /\ axle.computed =>
                  /\ ~axle.d_phi_min_computable
                  /\ ~axle.overall_pass
                  /\ axle.reason # ""
                  /\ (IF w = "left" THEN axle.right_wheel ELSE axle.left_wheel)
                        = QueuedResult(Sibling(w))

\* the axle was evaluated with one wheel short of peaks and a valid result
\* of the sibling wheel
C7_Witness ==
    /\ axle.computed
    /\ PeaksSearched("left") /\ Len(peaks["left"]) < 2
    /\ axle.right_wheel.valid
    /\ axle.right_wheel = result["right"]

NoValidCyclesErrors == {"No valid cycles found", "Keine gueltigen Zyklen"}

\* C8: when the evaluation has ended with at least 2 peaks and no cycle that
\* lies in the band and has two crossings, the result is not valid, names
\* the missing cycles and reports no min_phase_shift
C8_NoValidCycles ==
    \A w \in Wheels :
        (Ended(w) /\ PeaksSearched(w) /\ Len(peaks[w]) >= 2 /\ ValidCycles(w) = {}) =>
            /\ ~result[w].valid
            /\ result[w].error \in NoValidCyclesErrors
            /\ result[w].min_phase_shift = NoValue

\* C9: a wheel test on a record of the required shape that has run to its
\* end raised no exception and put exactly one result on the queue
C9_OneResultPerWheel ==
    \A w \in Wheels :
        (pc[w] = "done" /\ SameShape(w)) =>
            /\ raised[w] = "none"
            /\ Cardinality(Queued(w)) = 1

\* C10: on a record whose arrays differ in length no peak search and no
\* cycle processing is done, and the evaluation ends with an error
C10_MismatchRejected ==
    \A w \in Wheels :
        (Present(w) /\ ~SameShape(w)) =>
            /\ pc[w] \in {"queued", "c_check", "py_peaks", "raised", "done"}
            /\ peaks[w] = << >>
            /\ analysed[w] = << >>
            /\ pc[w] = "done" => raised[w] # "none"

(* ------------------------ sequencer properties ------------------------ *)
\* the sequencer has been in state st
InPath(st) == \E i \in 1..Len(seq.path) : seq.path[i] = st

\* C11: once an abort has been reported in a non-terminal state the
\* sequencer is still in that state or is in FAILED, which it entered
\* from that state with the abort as its reason; it is never in DONE
C11_AbortGoesToFailed ==
    seq.abort # "" =>
        /\ seq.abort_seen_in \in NonTerminal
        /\ seq.state \in {seq.abort_seen_in, "FAILED"}
        /\ seq.state # "DONE"
        /\ seq.state = "FAILED" =>
              /\ seq.reason = seq.abort
              /\ seq.reason # ""
              /\ seq.path[Len(seq.path) - 1] = seq.abort_seen_in

\* a sensor fault reported in EVALUATING has failed the run
C11_Witness ==
    /\ seq.state = "FAILED"
    /\ seq.abort = "sensor_fault"
    /\ seq.abort_seen_in = "EVALUATING"
    /\ seq.reason = "sensor_fault"

\* some step of the evaluation has been taken or some result exists
EvaluationTouched ==
    \/ \E w \in Wheels : pc[w] \notin {"absent", "captured"}
    \/ result_queue # << >>
    \/ \E w \in Wheels : wheel_result[w].assembled
    \/ axle.computed

\* C12: EVALUATING is entered only from FREQUENCY_SWEEP with the sweep
\* complete; nothing is evaluated before EVALUATING; a run aborted before
\* EVALUATING never reaches EVALUATING or DONE and evaluates nothing
C12_OnlyCompleteRecordEvaluated ==
    /\ \A i \in 1..Len(seq.path) :
          seq.path[i] = "EVALUATING" =>
              /\ i > 1
              /\ seq.path[i - 1] = "FREQUENCY_SWEEP"
              /\ SweepComplete(seq)
    /\ EvaluationTouched => InPath("EVALUATING") /\ SweepComplete(seq)
    /\ seq.state = "DONE" => InPath("EVALUATING")
    /\ (seq.abort # "" /\ seq.abort_seen_in # "EVALUATING") =>
          /\ ~InPath("EVALUATING")
          /\ seq.state # "DONE"
          /\ ~EvaluationTouched

\* a run whose sweep took longer than required was evaluated to a result
C12_Witness ==
    /\ seq.state = "DONE"
    /\ seq.sweep_time > min_sweep_time
    /\ wheel_result["left"].assembled
    /\ wheel_result["left"].phase_shift_result.valid

\* the errors with which the evaluation reports insufficient data
DataInsufficiencyErrors ==
    {"Not enough peaks found", "Nicht genug Peaks gefunden",
     "No valid cycles found", "Keine gueltigen Zyklen"}

\* C14: a run is failed only when no evaluation is under way; after a
\* request that arrived during the evaluation the sequencer stays in
\* EVALUATING until the evaluation has ended; and the evaluation ends by
\* raising only with a data-insufficiency error
C14_CancelOnlyAtTransitions ==
    /\ (seq.state = "FAILED" /\ seq.invoked > 0) => EvaluationEnded
    /\ seq.running_at_request =>
          \/ seq.state = "EVALUATING"
          \/ seq.state = "FAILED" /\ EvaluationEnded
    /\ \A w \in Wheels :
          (Present(w) /\ raised[w] # "none") => raised[w] \in DataInsufficiencyErrors

\* C15: the evaluation is invoked at most once, only in EVALUATING, and a
\* run that is DONE has invoked it once and holds one result per record
C15_EvaluatedExactlyOnce ==
    /\ seq.invoked <= 1
    /\ seq.invoked > 0 => InPath("EVALUATING")
    /\ EvaluationTouched => seq.invoked = 1
    /\ seq.state = "DONE" =>
          /\ seq.invoked = 1
          /\ \A w \in Wheels :
                Present(w) => /\ pc[w] = "done"
                              /\ Cardinality(Queued(w)) = 1
                              /\ wheel_result[w].phase_shift_result = QueuedResult(w)

\* a run is DONE with one evaluation of a record of two cycles
C15_Witness ==
    /\ seq.state = "DONE"
    /\ seq.invoked = 1
    /\ Len(peaks["left"]) > 2
    /\ Cardinality(Queued("left")) = 1

(* --------------------- wheel and axle properties ---------------------- *)
\* the phase result the axle holds for wheel w
AxleWheel(w) == IF w = "left" THEN axle.left_wheel ELSE axle.right_wheel

\* C13: when the axle has been evaluated, the evaluations of both wheels
\* have run to their end and put their result on the queue, and the axle
\* holds these two results
C13_AxleWaitsForBothWheels ==
    axle.computed =>
        \A w \in Wheels :
            /\ pc[w] = "done"
            /\ Queued(w) # {}
            /\ AxleWheel(w) = result[w]

\* the axle was evaluated after the right wheel had finished before the
\* left one, both with a phi-min
C13_Witness ==
    /\ axle.computed
    /\ result_queue[1].wheel = "right"
    /\ axle.left_wheel.valid /\ axle.right_wheel.valid

\* the evaluation of wheel w has ended and found no cycle in the band with
\* two crossings: the wheel has no valid phi-min
NoValidPhiMin(w) == Ended(w) /\ ValidCycles(w) = {}

\* C16: when the axle has been evaluated and a wheel has no valid phi-min,
\* d_phi_min is marked not computable and carries no number, and
\* overall_pass is false with a reason, whatever the other wheel's result
C16_NoPhiMinNotComputable ==
    (axle.computed /\ \E w \in Wheels : NoValidPhiMin(w)) =>
        /\ ~axle.d_phi_min_computable
        /\ axle.d_phi_min = NoValue
        /\ ~axle.overall_pass
        /\ axle.reason # ""

(* ------------------------ pass / fail properties ---------------------- *)
\* C17: the axle's overall_pass is true exactly when both wheels' overall_pass
\* are true and each of d_rfa_max, d_phi_min and d_rigidity is less than or
\* equal to its limit
C17_AxleOverallPass ==
    axle.computed =>
        (axle.overall_pass <=>
            /\ axle.left.overall_pass
            /\ axle.right.overall_pass
            /\ RLe(axle.d_rfa_max, RInt(limit_rfa))
            /\ RLe(axle.d_phi_min, RInt(limit_phi))
            /\ RLe(axle.d_rigidity, RInt(limit_rig)))

\* an axle passes with each of the three imbalances exactly at its limit
C17_Witness ==
    /\ axle.computed
    /\ axle.overall_pass
    /\ axle.d_rfa_max = RInt(limit_rfa)
    /\ axle.d_phi_min = RInt(limit_phi)
    /\ axle.d_rigidity = RInt(limit_rig)

\* C18: an assembled wheel result with a valid phi-min has
\* absolute_criterion_pass exactly when phi-min >= phase_shift_min, and with
\* phi-min below the threshold its overall_pass is false too
C18_AbsoluteCriterion ==
    \A w \in Wheels :
        (wheel_result[w].assembled /\ wheel_result[w].phase_shift_result.valid) =>
            LET phi == wheel_result[w].phase_shift_result.min_phase_shift
            IN  /\ wheel_result[w].absolute_criterion_pass
                       <=> RLe(RInt(phase_shift_min), phi)
                /\ RLt(phi, RInt(phase_shift_min)) => ~wheel_result[w].overall_pass

\* one wheel passes with phi-min equal to the threshold, its sibling fails
\* one degree below it
C18_Witness ==
    /\ wheel_result["left"].assembled
    /\ wheel_result["left"].phase_shift_result.min_phase_shift = RInt(phase_shift_min)
    /\ wheel_result["left"].absolute_criterion_pass
    /\ wheel_result["right"].assembled
    /\ wheel_result["right"].phase_shift_result.min_phase_shift
           = RInt(phase_shift_min - 1)
    /\ ~wheel_result["right"].absolute_criterion_pass
    /\ ~wheel_result["right"].overall_pass

\* C19: an assembled wheel result's overall_pass equals its
\* absolute_criterion_pass, whatever the rigidity warnings and pressure_ok
C19_WarningsDoNotGate ==
    \A w \in Wheels :
        wheel_result[w].assembled =>
            wheel_result[w].overall_pass = wheel_result[w].absolute_criterion_pass

\* a wheel with the underinflation warning passes while its sibling with the
\* overinflation warning passes too
C19_Witness ==
    /\ wheel_result["left"].assembled
    /\ wheel_result["left"].rigidity_result.underinflation
    /\ ~wheel_result["left"].rigidity_result.pressure_ok
    /\ wheel_result["left"].overall_pass
    /\ wheel_result["right"].assembled
    /\ wheel_result["right"].rigidity_result.overinflation
    /\ ~wheel_result["right"].rigidity_result.pressure_ok
    /\ wheel_result["right"].overall_pass

\* the two candidates of FAmax for the record of wheel w
BelowStatic(w) == record[w].static_weight - np_min(record[w].tire_force)
AboveStatic(w) == np_max(record[w].tire_force) - record[w].static_weight

InValidityBand(w, e) ==
    LET cycle_force == NpSlice(record[w].tire_force, e.start, e.end)
        lo == np_min(cycle_force)
        hi == np_max(cycle_force)
        delta_f == hi - lo
    IN  /\ 100 * lo + delta_f * rfst_fmin < 100 * record[w].static_weight
        /\ 100 * record[w].static_weight < 100 * hi - delta_f * rfst_fmax

\* C21: the crossings of a cycle whose static weight lies outside the
\* validity band are discarded: no Fref is computed from them and the cycle
\* is not counted as a cycle with valid crossings
C21_CrossingsOutsideBandDiscarded ==
    \A w \in Wheels :
        \A k \in 1..Len(analysed[w]) :
            (analysed[w][k].crossings # << >> /\ ~InValidityBand(w, analysed[w][k]))
                => /\ analysed[w][k].fref = NoValue
                   /\ ~analysed[w][k].appended

PeakSet(w) == { peaks[w][k] : k \in 1..Len(peaks[w]) }

\* sample i of data is strictly greater than both neighbouring samples
LocalMaximum(data, i) ==
    /\ 1 <= i /\ i <= Len(data) - 2
    /\ At(data, i) > At(data, i - 1) /\ At(data, i) > At(data, i + 1)

\* sample i lies at least min_distance after the peak of wheel w accepted
\* last before it, or no peak was accepted before it
FarFromPreviousPeak(w, i) ==
    \A p \in PeakSet(w) :
        (p < i /\ \A q \in PeakSet(w) : q < i => q <= p) => i - p >= min_distance

StrictlyIncreasing(s) == \A k \in 1..(Len(s) - 1) : s[k] < s[k + 1]

\* C23: a platform sample is among the returned peaks exactly when it is
\* strictly greater than both neighbours and lies at least min_distance after
\* the previously accepted peak; the returned indices are strictly increasing
C23_PeakExactlyLocalMaxAndDistance ==
    \A w \in Wheels :
        PeaksSearched(w) =>
            /\ \A i \in 0..(Len(record[w].platform_position) - 1) :
                  (i \in PeakSet(w)) <=>
                      /\ LocalMaximum(record[w].platform_position, i)
                      /\ FarFromPreviousPeak(w, i)
            /\ StrictlyIncreasing(peaks[w])

\* sample i is strictly greater than every other sample of the window the
\* peak search of wheel w looks at: five samples before it and four after it
\* in the C extension, which accepts at most a tenth of the samples as peaks;
\* five before and five after it in the Python fallback, which skips the
\* first and the last five samples
Significant(w, i) ==
    LET data == record[w].platform_position
        n == Len(data)
    IN  IF c_extension
          THEN /\ \A j \in Max2(0, i - window)..(Min2(n, i + window) - 1) :
                     j # i => At(data, j) < At(data, i)
               /\ Cardinality({ p \in PeakSet(w) : p < i }) < n \div 10
        ELSE /\ i >= window /\ i < n - window
             /\ \A j \in (i - window)..(i + window) :
                   j # i => At(data, j) < At(data, i)

\* C23 as amended: a platform sample is among the returned peaks exactly
\* when it is strictly greater than both neighbours, lies at least
\* min_distance after the previously accepted peak and is strictly greater
\* than every other sample of the window around it; the returned indices are
\* strictly increasing
C23_PeakAlsoLargestOfWindow ==
    \A w \in Wheels :
        PeaksSearched(w) =>
            /\ \A i \in 0..(Len(record[w].platform_position) - 1) :
                  (i \in PeakSet(w)) <=>
                      /\ LocalMaximum(record[w].platform_position, i)
                      /\ FarFromPreviousPeak(w, i)
                      /\ Significant(w, i)
            /\ StrictlyIncreasing(peaks[w])

\* the search has run on a record with three local maxima: the first is
\* lower than the crest two samples after it and is not accepted, the crest
\* is accepted, the third lies closer than min_distance after the crest
C23_Witness ==
    \E w \in Wheels :
        /\ PeaksSearched(w)
        /\ Len(peaks[w]) = 1
        /\ LET data == record[w].platform_position
               i == peaks[w][1]
           IN  /\ LocalMaximum(data, i - 2) /\ (i - 2) \notin PeakSet(w)
               /\ \E j \in (i + 1)..(i + min_distance - 1) :
                     LocalMaximum(data, j) /\ j \notin PeakSet(w)

(* ----------------------------- imbalances ----------------------------- *)
\* |val_l - val_r| / max(val_l, val_r) * 100, for a positive max(val_l, val_r)
D(val_l, val_r) ==
    LET larger == IF RLt(val_l, val_r) THEN val_r ELSE val_l
        diff == IF RLt(val_l, val_r) THEN RSub(val_r, val_l) ELSE RSub(val_l, val_r)
    IN  RMul(RDiv(diff, larger), RInt(100))

Positive(x) == RLt(RInt(0), x)

Alone(w) == calculate(record[w], c_extension, numpy_empty_is_error)

Motor(m) == IF m = "left" THEN motor_left ELSE motor_right
MotorPin(m) == IF m = "left" THEN MOTOR_LEFT ELSE MOTOR_RIGHT

\* motor m was started with the run-time byte observed.runtime[m], no stop
\* command came since, and n runs of Every10ms have passed since the start
RunningFor(m, n) == observed.started[m] /\ observed.elapsed[m] >= n

\* C27: a motor started with the run-time byte T is switched off once T * 100
\* ten-millisecond cycles have passed since the start command, without a
\* stop command, for every T (for T = 0: with the first cycle)
C27_MotorOffAfterRunTime ==
    \A m \in {"left", "right"} :
        RunningFor(m, observed.runtime[m] * 100) /\ RunningFor(m, 1)
            => MotorPin(m) = 0 /\ Motor(m).running = 0

\* the same for the run-time bytes above 0
C27_MotorOffAfterPositiveRunTime ==
    \A m \in {"left", "right"} :
        observed.runtime[m] > 0 /\ RunningFor(m, observed.runtime[m] * 100)
            => MotorPin(m) = 0 /\ Motor(m).running = 0

\* a motor started with a run-time byte above 0 has run its time and stands
C27_RunTimeOver ==
    \E m \in {"left", "right"} :
        /\ observed.runtime[m] > 0
        /\ RunningFor(m, observed.runtime[m] * 100)
        /\ MotorPin(m) = 0

\* the motor status messages the latest run of Every10ms has sent
MotorStatusSent ==
    { i \in 1..Len(can_tx) : can_tx[i].id = EUS(EUSEMA_MOTOR_STATUS) }

DmsBytes(g, from) ==
    <<HighByte(g[from]), LowByte(g[from]),
      HighByte(g[from + 1]), LowByte(g[from + 1]),
      HighByte(g[from + 2]), LowByte(g[from + 2]),
      HighByte(g[from + 3]), LowByte(g[from + 3])>>

\* the DMS messages with sub-ID d the latest run of Every10ms has sent
DmsSent(d) == { i \in 1..Len(can_tx) : can_tx[i].id = EUS(d) }

\* a run of Every10ms has sent its measurement point
PointSent == can_tx # << >>

\* C29: a measurement point is two messages: packet 0 (ID 0x08AAAA60,
\* sub-ID 0) carries the four left values DMS 1-4 and packet 1
\* (ID 0x08AAAA61, sub-ID 1) the four right values DMS 5-8
C29_Packet0LeftPacket1Right ==
    PointSent =>
        /\ Cardinality(DmsSent(0)) = 1
        /\ Cardinality(DmsSent(1)) = 1
        /\ \A i \in DmsSent(0) :
               can_tx[i].dlc = 8 /\ can_tx[i].data = DmsBytes(observed.sample, 1)
        /\ \A i \in DmsSent(1) :
               can_tx[i].dlc = 8 /\ can_tx[i].data = DmsBytes(observed.sample, 5)

\* what the firmware sends instead: the left values under sub-ID 1 and the
\* right values under sub-ID 0
C29_Packet1LeftPacket0Right ==
    PointSent =>
        /\ Cardinality(DmsSent(0)) = 1
        /\ Cardinality(DmsSent(1)) = 1
        /\ \A i \in DmsSent(1) :
               can_tx[i].dlc = 8 /\ can_tx[i].data = DmsBytes(observed.sample, 1)
        /\ \A i \in DmsSent(0) :
               can_tx[i].dlc = 8 /\ can_tx[i].data = DmsBytes(observed.sample, 5)

\* C30: one top-position packet (sub-ID 0x07) per rising edge of the top
\* sensor: none is sent without an edge or twice, and none is missed (at most
\* the latest edge still waits for the next run of Every10ms)
C30_OnePacketPerRisingEdge ==
    /\ observed.top_packets <= observed.edges
    /\ observed.edges <= observed.top_packets + 1

\* no packet without a rising edge and none twice
C30_NoPacketTwice == observed.top_packets <= observed.edges

\* a rising edge has been answered by its packet
C30_EdgeAnswered ==
    /\ observed.edges >= 1
    /\ observed.top_packets = observed.edges
    /\ \E i \in 1..Len(can_tx) : can_tx[i].id = EUS(EUSEMA_TOP_POSITION)

\* C31: after stop() the run loop exits and the thread ends, so that
\* processor.join() returns, whatever data_queue and result_queue hold
C31_StopEndsThread ==
    (processor.main = "join") ~> (processor.worker = "exited" /\ processor.main = "joined")

\* the thread has ended after stop() and join() has returned
C31_Joined == processor.main = "joined" /\ ~processor.running

C32_AcceptedEntryWritten ==
    scales.scale_changed = 0 => scales.eeprom = scales.scaleAd2weight

\* an accepted entry was written to the EEPROM and the flag was cleared
C32_EntryWritten ==
    /\ scales.scale_changed = 0
    /\ scales.eeprom = scales.scaleAd2weight
    /\ \E k \in 0..31 : scales.eeprom[k] # NoScale

\* the latest scale message is one ScalesFromCAN has to ignore
Ignored(m) == m.geber_nummer >= 8 \/ m.scale_index >= 4 \/ m.dlc % 16 < 6

\* C40: ScalesFromCAN writes only to the entries 0..31 of the scale table;
\* a message with sensor number >= 8, scale index >= 4 or fewer than 6 data
\* bytes leaves the table and scale_changed as they were
C40_OnlyTableEntriesWritten ==
    /\ ~scales.outside
    /\ DOMAIN scales.scaleAd2weight = 0..31
    /\ (scales.received > 0 /\ Ignored(scales.message)) => scales.kept

\* a message with a sensor number of 64 and one with the last valid entry
\* have been received
C40_Witness ==
    /\ scales.received = 2
    /\ scales.message.geber_nummer = 64
    /\ scales.message.dlc % 16 >= 6
    /\ scales.scaleAd2weight[31] # NoScale

\* C33: once a start command with a run time T > 0 was processed for a
\* motor, its output is on and its running flag is set until T * 100 runs of
\* Every10ms have passed or a stop command was processed
C33_MotorOnUntilTimeOrStop ==
    \A m \in Motors :
        (update_pc.due[m] /\ update_pc.since[m] < update_pc.runtime[m] * 100)
            => MotorPin(m) = 1 /\ Motor(m).running = 1

\* a motor was started with T > 0 and has run through whole calls of
\* UpdateMotorTimers
C33_StartedAndRunning ==
    \E m \in Motors :
        /\ update_pc.due[m]
        /\ update_pc.since[m] = 2
        /\ update_pc.at = "idle"
        /\ MotorPin(m) = 1
        /\ Motor(m).running = 1
        /\ Motor(m).remaining_time = update_pc.runtime[m] * 100 - 2

\* the number of batches the callback got that hold update u
Deliveries(u) ==
    Cardinality({b \in DOMAIN updater.delivered :
                    \E i \in DOMAIN updater.delivered[b] :
                        updater.delivered[b][i] = u})

\* update u is in the list and a flush that will hand it on is still to come:
\* a timer is started, or the running flush has not yet combined the list,
\* or add_update is about to start a timer
StillToCome(u) ==
    /\ \E i \in DOMAIN updater.pending_updates : updater.pending_updates[i] = u
    /\ \/ updater.timer = "started"
       \/ updater.flush \in {"if", "combine"} /\ updater._combine_updates = "defined"
       \/ updater.adder = "start"
       \/ updater.adder = "if" /\ updater.timer = "None"

\* C34: every update passed to add_update is delivered to the callback in
\* exactly one batch: none is delivered twice, and one not yet delivered is
\* in the list with a flush still to come
C34_EveryUpdateDeliveredOnce ==
    \A u \in 1..updater.added :
        /\ Deliveries(u) <= 1
        /\ Deliveries(u) = 0 =>
               \/ StillToCome(u)
               \/ updater.flush = "callback" /\
                  \E i \in DOMAIN updater.combined_data :
                      updater.combined_data[i] = u

\* all updates were added and delivered, in more than one batch
C34_AllDelivered ==
    /\ updater.added = MaxUpdates
    /\ \A u \in 1..MaxUpdates : Deliveries(u) = 1
    /\ Len(updater.delivered) > 1
    /\ updater.flush = "none"
    /\ updater.pending_updates = << >>

\* the result get_data has returned, and the rows it holds
Got == ring.reader.result
Rows == 1..Len(Got._platform_buffer)
Row(i) == [c \in DOMAIN Point(0) |-> Got[c][i]]

\* the appends whose points the buffer held when get_data took the lock
Held(seen) ==
    {seen[i] : i \in {j \in DOMAIN seen : j > Len(seen) - capacity}}

LastAppends(seen) ==
    [i \in 1..Least(Len(seen), capacity) |->
        seen[Len(seen) - Least(Len(seen), capacity) + i]]

\* C36: get_data() without max_points returns the last min(n, capacity)
\* points appended since construction or the last clear, in the order of the
\* appends; size and write index stay in their ranges
C36_LastPointsInAppendOrder ==
    /\ 0 <= ring._size /\ ring._size <= capacity
    /\ 0 <= ring._write_idx /\ ring._write_idx < capacity
    /\ (Got.returned /\ ring.reader.max_points = 0) =>
           /\ Got.empty <=> ring.reader.seen = << >>
           /\ Got.size = Len(LastAppends(ring.reader.seen))
           /\ \A c \in DOMAIN Point(0) :
                  Got[c] = [i \in 1..Len(LastAppends(ring.reader.seen)) |->
                               Point(LastAppends(ring.reader.seen)[i])[c]]

\* three points were appended to a buffer of two, the write index has gone
\* round, and get_data() has returned the last two
C36_Witness ==
    /\ Got.returned
    /\ ring.reader.max_points = 0
    /\ Len(ring.reader.seen) > capacity
    /\ ring._write_idx # 0
    /\ Got._time_buffer = <<Point(2)._time_buffer, Point(3)._time_buffer>>

\* what the evaluation of the record of wheel w gives through the other
\* implementation: the Python code when the C extension is loaded, the C
\* extension when it is not
OtherWay(w) == calculate(record[w], ~c_extension, numpy_empty_is_error)

\* the platform peaks the two implementations accept in the record of wheel w
PeaksBothWays(w) ==
    [c |-> find_peaks(record[w].platform_position,
                      Len(record[w].platform_position) \div 10, min_distance),
     py |-> _find_peaks_fast(record[w].platform_position, min_distance)]

\* C37: calculate returns the same through the C extension as through the
\* Python code on the same record: the same validity, the same accepted
\* peaks and cycles, the same min_phase_shift and min_phase_freq, and an
\* exception where the other raises one
C37_SameResultBothWays ==
    \A w \in Wheels :
        (Present(w) /\ Ended(w) /\ SameShape(w)) =>
            /\ (raised[w] = "none") <=> (OtherWay(w).raised = "none")
            /\ result[w].valid = OtherWay(w).result.valid
            /\ result[w].min_phase_shift = OtherWay(w).result.min_phase_shift
            /\ result[w].min_phase_freq = OtherWay(w).result.min_phase_freq
            /\ result[w].phase_shifts = OtherWay(w).result.phase_shifts
            /\ result[w].frequencies = OtherWay(w).result.frequencies
            /\ PeaksBothWays(w).c = PeaksBothWays(w).py

\* an evaluation has returned a phi-min that the other implementation
\* returns as well
C37_SameMinimum ==
    /\ Ended("left")
    /\ result["left"].valid
    /\ OtherWay("left").result.valid
    /\ result["left"].min_phase_shift = OtherWay("left").result.min_phase_shift
    /\ result["left"].min_phase_freq = OtherWay("left").result.min_phase_freq

\* C38: the crossing interpolation never divides by zero: wherever a
\* crossing time was interpolated between two samples, the two force samples
\* differ
C38_NoDivisionByZero ==
    \A k \in DOMAIN interpolation.denominators :
        interpolation.denominators[k] # 0

\* the search has gone through a cycle with a sample at the static weight
\* and has interpolated crossings with a divisor other than zero only
C38_CrossingsInterpolated ==
    /\ interpolation.i = Len(interpolation.force)
    /\ \E j \in DOMAIN interpolation.force :
           interpolation.force[j] = interpolation.static_weight
    /\ Len(interpolation.crossings) > 1
    /\ \A k \in DOMAIN interpolation.denominators :
           interpolation.denominators[k] # 0
====
